---- MODULE Spec2Model ----
(***************************************************************************)
(* Compliance ledger, banking and pooling engine of the FuelEU Maritime    *)
(* backend, as a state machine over the PostgreSQL tables it keeps.        *)
(*                                                                         *)
(* Quantities are integers counting 0.0001 gCO2e, so that the numbers the  *)
(* JavaScript side computes with (request amounts, pool shares) and the    *)
(* DECIMAL(15,2) values the tables store are both representable: a stored  *)
(* value is a multiple of Cent, and every write to a DECIMAL(15,2) column  *)
(* goes through Round2, PostgreSQL's rounding of numeric (half away from   *)
(* zero).  Every key is (ship, year) for the one reporting year 2024.      *)
(*                                                                         *)
(* Transactions run at PostgreSQL's default READ COMMITTED level: a plain  *)
(* SELECT reads the committed rows; SELECT ... FOR UPDATE, UPDATE and      *)
(* DELETE wait for the row's lock and then act on the latest committed     *)
(* version of the row (or on no row, if it was deleted meanwhile); writes  *)
(* are private to the transaction until COMMIT; ROLLBACK drops them.       *)
(* Requests are served by Workers; which worker serves a request is of no  *)
(* consequence, so a request goes to the first idle one.                   *)
(***************************************************************************)
EXTENDS Integers, Sequences, FiniteSets, TLC

\* ------------------------------------------------------------------ bounds
MaxOps == 2        \* requests started in one behaviour
MaxFaults == 1     \* statements the store fails in one behaviour
MaxPoolOps == 3    \* requests started in one behaviour of SpecPooling
MaxBaselineOps == 3  \* requests started in one behaviour of SpecBaseline

\* --------------------------------------------------------------- constants
Cent == 100                   \* 0.01, the quantum of DECIMAL(15,2)
COMPLIANCE_TARGET == 893368   \* 89.3368 gCO2e/MJ

Ships == {"E1", "E2"}

\* memberShipIds of a createPool request holds at most as many ids as there
\* are ships (fewer ships, when ids repeat)
MaxMembers == Cardinality(Ships)
Workers == {1, 2}

\* rows of table routes: route_id, year, ghg_intensity (DECIMAL(10,2), here in
\* 0.0001) and fuel_consumption, small so that the balances computed are a
\* few cents: 0.04 for R001, -0.01 for R002 and 0.01 for R003
Routes ==
  { [route_id |-> "R001", year |-> 2024, ghgIntensity |-> 893300, fuelConsumption |-> 6],
    [route_id |-> "R002", year |-> 2024, ghgIntensity |-> 893400, fuelConsumption |-> 3],
    [route_id |-> "R003", year |-> 2023, ghgIntensity |-> 893300, fuelConsumption |-> 1] }
RouteIds == {"R001", "R002", "R003", "R404"}

\* request amounts: 0.005, 0.01 and 0.02
Amounts == {50, 100, 200}

\* the characters of some strings sent as amount
Text == { <<"a", "b", "c">>, <<"-", "5", "0">>, <<" ", "1", "0", "0">>, <<>> }

\* ------------------------------------------------- amounts of a request
\* The amount of a request body is a JSON number, a JSON string (a sequence of
\* characters) or is missing (undefined or null); NaN is what parseFloat gives
\* for a string that does not begin with a numeral.
Num(n) == [t |-> "number", n |-> n, s |-> <<>>]
Str(s) == [t |-> "string", n |-> 0, s |-> s]
Missing == [t |-> "null", n |-> 0, s |-> <<>>]
NaN == [t |-> "NaN", n |-> 0, s |-> <<>>]

Digit == [c \in {"0", "1", "2", "3", "4", "5", "6", "7", "8", "9"} |->
            CASE c = "0" -> 0 [] c = "1" -> 1 [] c = "2" -> 2 [] c = "3" -> 3
              [] c = "4" -> 4 [] c = "5" -> 5 [] c = "6" -> 6 [] c = "7" -> 7
              [] c = "8" -> 8 [] OTHER -> 9]

\* the digits a sequence of characters begins with
RECURSIVE LeadingDigits(_)
LeadingDigits(s) ==
  IF s = <<>> \/ Head(s) \notin DOMAIN Digit THEN <<>>
  ELSE <<Head(s)>> \o LeadingDigits(Tail(s))

RECURSIVE Numeral(_)
Numeral(digits) ==
  IF digits = <<>> THEN 0
  ELSE 10 * Numeral(SubSeq(digits, 1, Len(digits) - 1)) + Digit[digits[Len(digits)]]

\* parseFloat(s): leading blanks are skipped, then a sign and the digits that
\* follow are read and whatever comes after them is ignored; NaN when there
\* is no digit.  (The numerals here are whole numbers of 0.0001.)
RECURSIVE parseFloat(_)
parseFloat(s) ==
  IF s # <<>> /\ Head(s) = " " THEN parseFloat(Tail(s))
  ELSE LET signed == s # <<>> /\ Head(s) \in {"-", "+"}
           digits == LeadingDigits(IF signed THEN Tail(s) ELSE s)
       IN  IF digits = <<>> THEN NaN
           ELSE IF signed /\ Head(s) = "-" THEN Num(-Numeral(digits))
           ELSE Num(Numeral(digits))

\* const amountNum = typeof amount === 'string' ? parseFloat(amount) : amount
amountNum(amount) == IF amount.t = "string" THEN parseFloat(amount.s) ELSE amount

\* The route's checks of amount with zero let through: amountNum < 0 in the
\* place of amountNum <= 0
AmountError_ZeroPasses(amount) ==
  IF amount.t = "null" THEN "amount is required"
  ELSE IF amountNum(amount).t = "NaN" \/ amountNum(amount).n < 0
  THEN "amount must be a valid positive number"
  ELSE ""

\* The route's checks of amount: the error it answers with, "" for none
AmountError(amount) ==
  IF amount.t = "null" THEN "amount is required"
  ELSE IF amountNum(amount).t = "NaN" \/ amountNum(amount).n <= 0
  THEN "amount must be a valid positive number"
  ELSE ""

\* ----------------------------------------------------------------- helpers
Abs(x) == IF x < 0 THEN -x ELSE x

\* A value as a DECIMAL(15,2) column stores it: rounded to a multiple of Cent,
\* ties away from zero.
Round2(x) ==
  LET q == (Abs(x) + (Cent \div 2)) \div Cent
  IN  IF x < 0 THEN -(q * Cent) ELSE q * Cent

\* The quotient num / den (den > 0) as a DECIMAL(15,2) column stores it.
Round2Div(num, den) ==
  LET q == (2 * Abs(num) + den * Cent) \div (2 * den * Cent)
  IN  IF num < 0 THEN -(q * Cent) ELSE q * Cent

IsCents(x) == x % Cent = 0

RECURSIVE SumOver(_, _)
SumOver(f, S) ==
  IF S = {} THEN 0
  ELSE LET x == CHOOSE y \in S : TRUE IN f[x] + SumOver(f, S \ {x})

RECURSIVE SeqSum(_)
SeqSum(s) == IF s = <<>> THEN 0 ELSE Head(s) + SeqSum(Tail(s))

EmptyFn == [x \in {} |-> 0]

\* ------------------------------------------------------------------- state
VARIABLES
  ship_compliance,      \* committed table ship_compliance: ship -> cb_gco2eq
  ship_compliance_rows, \* ship -> number of rows of ship_compliance with that key
  bank_entries,         \* committed table bank_entries: id -> row
  bank_entries_id_seq,  \* the SERIAL behind bank_entries.id
  pools,                \* committed tables pools and pool_members, in insertion order
  pools_id_seq,         \* the SERIAL behind pools.id
  now,                  \* the clock CURRENT_TIMESTAMP and new Date() read
  call,                 \* per worker: the request it is serving
  last,                 \* per worker: the outcome of the request it served last,
                        \* until it takes the next
  nops,                 \* requests started
  nfaults,              \* statements failed by the store
  is_baseline,          \* committed column routes.is_baseline: route_id -> boolean
  baselines             \* committed table baselines: the route_ids with a row

vars == <<ship_compliance, ship_compliance_rows, bank_entries, bank_entries_id_seq, pools, pools_id_seq,
          now, call, last, nops, nfaults, is_baseline, baselines>>

db == <<ship_compliance, bank_entries>>

RowsOfShip(shipId) == {id \in DOMAIN bank_entries : bank_entries[id].ship_id = shipId}

\* the sum of amount_gco2eq over a ship's rows of a bank_entries table
BankedIn(rows, shipId) ==
  SumOver([id \in DOMAIN rows |-> rows[id].amount_gco2eq],
          {id \in DOMAIN rows : rows[id].ship_id = shipId})

\* The sum without the WHERE clause, over the entries of every ship
getBankedAmountForShip_AllShips(shipId) ==
  SumOver([id \in DOMAIN bank_entries |-> bank_entries[id].amount_gco2eq],
          DOMAIN bank_entries)

\* SELECT COALESCE(SUM(amount_gco2eq), 0) FROM bank_entries WHERE ship_id = .. AND year = ..
getBankedAmountForShip(shipId) == BankedIn(bank_entries, shipId)

\* cb_gco2eq of a ship in a ship_compliance table, 0 for no row
CbIn(table, shipId) == IF shipId \in DOMAIN table THEN table[shipId] ELSE 0

\* The rows in the opposite order, ORDER BY created_at DESC
RECURSIVE OrderByCreatedAt_Desc(_)
OrderByCreatedAt_Desc(ids) ==
  IF ids = {} THEN <<>>
  ELSE LET first == CHOOSE x \in ids : \A y \in ids :
                      \/ bank_entries[x].created_at > bank_entries[y].created_at
                      \/ /\ bank_entries[x].created_at = bank_entries[y].created_at
                         /\ x >= y
       IN  <<[id |-> first, amount_gco2eq |-> bank_entries[first].amount_gco2eq,
              created_at |-> bank_entries[first].created_at]>>
             \o OrderByCreatedAt_Desc(ids \ {first})

\* SELECT id, amount_gco2eq ... ORDER BY created_at ASC (created_at is kept
\* with each row read, for reference)
RECURSIVE OrderByCreatedAt(_)
OrderByCreatedAt(ids) ==
  IF ids = {} THEN <<>>
  ELSE LET first == CHOOSE x \in ids : \A y \in ids :
                      \/ bank_entries[x].created_at < bank_entries[y].created_at
                      \/ /\ bank_entries[x].created_at = bank_entries[y].created_at
                         /\ x <= y
       IN  <<[id |-> first, amount_gco2eq |-> bank_entries[first].amount_gco2eq,
              created_at |-> bank_entries[first].created_at]>>
             \o OrderByCreatedAt(ids \ {first})

Idle ==
  [id |-> 0, op |-> "idle", pc |-> "idle", shipId |-> "", amount |-> 0, txTime |-> 0,
   currentCb |-> 0, totalBanked |-> 0, rows |-> <<>>, i |-> 0, remaining |-> 0,
   lockedShips |-> {}, lockedRows |-> {},
   setCb |-> EmptyFn, setRows |-> EmptyFn, delRows |-> {}, newRows |-> EmptyFn,
   error |-> "", touched |-> <<>>, memberShipIds |-> <<>>, members |-> <<>>,
   peers |-> {}, before |-> <<EmptyFn, EmptyFn>>, poolsBefore |-> <<>>, poolId |-> 0,
   moments |-> {}, prev |-> <<>>, routeId |-> "", raw |-> Missing,
   targets |-> {}, setBaseline |-> EmptyFn]

NoResult ==
  [id |-> 0, op |-> "none", shipId |-> "", amount |-> 0, error |-> "", currentCb |-> 0,
   totalBanked |-> 0, rows |-> <<>>, errors |-> <<>>, peers |-> {},
   before |-> <<EmptyFn, EmptyFn>>, wrote |-> FALSE, pool |-> <<>>,
   memberShipIds |-> <<>>, members |-> <<>>, poolsBefore |-> <<>>, moments |-> {},
   prev |-> <<>>, routeId |-> "", raw |-> Missing]

\* row locks held by transactions other than w's
ShipLockedByOther(w, shipId) ==
  \E v \in Workers \ {w} : shipId \in call[v].lockedShips
RowLockedByOther(w, id) ==
  \E v \in Workers \ {w} : id \in call[v].lockedRows
ShipLocked(shipId) == \E v \in Workers : shipId \in call[v].lockedShips

\* ------------------------------------------------- requests and transactions
\* A request is accepted: it goes to the first idle worker.  n is the number
\* of requests a run has at most.
AcceptsWithin(w, n) ==
  /\ call[w].op = "idle"
  /\ \A v \in Workers : v < w => call[v].op # "idle"
  /\ nops < n

Accepts(w) == AcceptsWithin(w, MaxOps)

\* The calls, with the table ship_compliance as a statement has just left it
\* noted in every createPool in flight: the ledger held these values at a
\* moment of that call.
WithMoment(table) ==
  [v \in Workers |->
     IF call[v].op = "pool" THEN [call[v] EXCEPT !.moments = @ \cup {table}]
     ELSE call[v]]

\* the requests in flight
InFlight == {call[v].id : v \in {u \in Workers : call[u].op # "idle"}}

\* What a request leaves behind when it returns.
Outcome(c, err, pool) ==
  [id |-> c.id, op |-> c.op, shipId |-> c.shipId, amount |-> c.amount, error |-> err,
   currentCb |-> c.currentCb, totalBanked |-> c.totalBanked, rows |-> c.rows,
   errors |-> IF c.op = "pool" THEN c.touched ELSE <<>>, peers |-> c.peers,
   before |-> c.before,
   wrote |-> (c.setCb # EmptyFn \/ c.setRows # EmptyFn \/ c.delRows # {}
              \/ c.newRows # EmptyFn \/ c.poolId # 0),
   pool |-> pool,
   memberShipIds |-> c.memberShipIds, members |-> c.members,
   poolsBefore |-> c.poolsBefore, moments |-> c.moments, prev |-> c.prev,
   routeId |-> c.routeId, raw |-> c.raw]

\* the tables after COMMIT of the writes of transaction c
CommittedCb(c) ==
  [s \in DOMAIN ship_compliance |->
     IF s \in DOMAIN c.setCb THEN c.setCb[s] ELSE ship_compliance[s]]
CommittedRows(c) ==
  [id \in (DOMAIN bank_entries \ c.delRows) \cup DOMAIN c.newRows |->
     IF id \in DOMAIN c.newRows THEN c.newRows[id]
     ELSE IF id \in DOMAIN c.setRows
          THEN [bank_entries[id] EXCEPT !.amount_gco2eq = c.setRows[id]]
          ELSE bank_entries[id]]

\* The tables as they were before the request that came just before this
\* one, when this one is an apply and that one was a bank of the same key and
\* amount which succeeded with no other request in flight; <<>> otherwise.
BeforeBank(w, op, shipId, amount) ==
  LET r == last[w] IN
  IF /\ op = "apply" /\ InFlight = {}
     /\ r.op = "bank" /\ r.error = "" /\ r.peers = {} /\ r.id = nops
     /\ r.shipId = shipId /\ r.amount = amount
  THEN <<r.before>>
  ELSE <<>>

\* The route accepts a bank or apply request (amount > 0) and the repository
\* runs client.query('BEGIN').
Begin(w, op, shipId, amount) ==
  /\ Accepts(w)
  /\ nops' = nops + 1
  /\ call' = [call EXCEPT ![w] =
       [Idle EXCEPT !.id = nops + 1, !.op = op, !.pc = "select", !.shipId = shipId,
                    !.amount = amount, !.txTime = now, !.peers = InFlight,
                    !.before = db, !.prev = BeforeBank(w, op, shipId, amount)]]
  /\ now' = now + 1
  /\ last' = [last EXCEPT ![w] = NoResult]
  /\ UNCHANGED <<ship_compliance, ship_compliance_rows, bank_entries, bank_entries_id_seq, pools,
                 pools_id_seq, nfaults,
                 is_baseline, baselines>>

\* A function that returns without the COMMIT: the transaction stays open on
\* its connection and keeps its locks
Commit_StaysOpen(w) ==
  LET c == call[w] IN
  /\ c.op \in {"bank", "apply"}
  /\ c.pc = "commit"
  /\ call' = [call EXCEPT ![w].pc = "open"]
  /\ UNCHANGED <<ship_compliance, ship_compliance_rows, bank_entries, bank_entries_id_seq,
                 pools, pools_id_seq, now, last, nops, nfaults,
                 is_baseline, baselines>>

\* client.query('COMMIT'); client.release()
Commit(w) ==
  LET c == call[w] IN
  /\ c.op \in {"bank", "apply"}
  /\ c.pc = "commit"
  /\ ship_compliance' = CommittedCb(c)
  /\ bank_entries' = CommittedRows(c)
  /\ last' = [last EXCEPT ![w] = Outcome(c, "", <<>>)]
  /\ call' = [WithMoment(CommittedCb(c)) EXCEPT ![w] = Idle]
  /\ UNCHANGED <<ship_compliance_rows, bank_entries_id_seq, pools, pools_id_seq, now,
                 nops, nfaults,
                 is_baseline, baselines>>

\* A catch block without the ROLLBACK: the connection goes back to the pool
\* and the writes made so far are committed with it
Rollback_KeepsWrites(w) ==
  LET c == call[w] IN
  /\ c.op \in {"bank", "apply"}
  /\ c.pc = "rollback"
  /\ ship_compliance' = CommittedCb(c)
  /\ bank_entries' = CommittedRows(c)
  /\ last' = [last EXCEPT ![w] = Outcome(c, c.error, <<>>)]
  /\ call' = [call EXCEPT ![w] = Idle]
  /\ UNCHANGED <<ship_compliance_rows, bank_entries_id_seq, pools, pools_id_seq, now,
                 nops, nfaults,
                 is_baseline, baselines>>

\* catch: client.query('ROLLBACK'); throw error; client.release()
Rollback(w) ==
  LET c == call[w] IN
  /\ c.op \in {"bank", "apply"}
  /\ c.pc = "rollback"
  /\ last' = [last EXCEPT ![w] = Outcome(c, c.error, <<>>)]
  /\ call' = [call EXCEPT ![w] = Idle]
  /\ UNCHANGED <<ship_compliance, ship_compliance_rows, bank_entries, bank_entries_id_seq, pools,
                 pools_id_seq, now, nops, nfaults,
                 is_baseline, baselines>>

\* The store fails the statement the transaction is about to run (or its
\* COMMIT): client.query rejects and the catch block runs.
StoreFails(w) ==
  LET c == call[w] IN
  /\ c.op \in {"bank", "apply"}
  /\ c.pc \notin {"rollback", "idle"}
  /\ nfaults < MaxFaults
  /\ nfaults' = nfaults + 1
  /\ call' = [call EXCEPT ![w].pc = "rollback", ![w].error = "store failure"]
  /\ UNCHANGED <<ship_compliance, ship_compliance_rows, bank_entries, bank_entries_id_seq, pools,
                 pools_id_seq, now, last, nops,
                 is_baseline, baselines>>

\* ------------------------------------------------------ bankSurplusForShip
\* POST /banking/bank with amount > 0, then BEGIN
bankSurplusForShip(w, shipId, amount) == Begin(w, "bank", shipId, amount)

\* The same with the check currentCb <= 0 in the place of currentCb < amount
BankSelectForUpdate_NotPositiveOnly(w) ==
  LET c == call[w] IN
  /\ c.op = "bank" /\ c.pc = "select"
  /\ ~ShipLockedByOther(w, c.shipId)
  /\ call' = [call EXCEPT ![w] =
       IF c.shipId \notin DOMAIN ship_compliance
       THEN [c EXCEPT !.pc = "rollback", !.error = "No compliance balance found"]
       ELSE IF ship_compliance[c.shipId] <= 0
       THEN [c EXCEPT !.pc = "rollback", !.error = "Insufficient surplus",
                      !.currentCb = ship_compliance[c.shipId],
                      !.lockedShips = {c.shipId}]
       ELSE [c EXCEPT !.pc = "updateCb",
                      !.currentCb = ship_compliance[c.shipId],
                      !.lockedShips = {c.shipId}]]
  /\ UNCHANGED <<ship_compliance, ship_compliance_rows, bank_entries, bank_entries_id_seq, pools,
                 pools_id_seq, now, last, nops, nfaults,
                 is_baseline, baselines>>

\* SELECT cb_gco2eq ... FOR UPDATE, and the two checks on its result
BankSelectForUpdate(w) ==
  LET c == call[w] IN
  /\ c.op = "bank" /\ c.pc = "select"
  /\ ~ShipLockedByOther(w, c.shipId)
  /\ call' = [call EXCEPT ![w] =
       IF c.shipId \notin DOMAIN ship_compliance
       THEN [c EXCEPT !.pc = "rollback", !.error = "No compliance balance found"]
       ELSE IF ship_compliance[c.shipId] < c.amount
       THEN [c EXCEPT !.pc = "rollback", !.error = "Insufficient surplus",
                      !.currentCb = ship_compliance[c.shipId],
                      !.lockedShips = {c.shipId}]
       ELSE [c EXCEPT !.pc = "updateCb",
                      !.currentCb = ship_compliance[c.shipId],
                      !.lockedShips = {c.shipId}]]
  /\ UNCHANGED <<ship_compliance, ship_compliance_rows, bank_entries, bank_entries_id_seq, pools,
                 pools_id_seq, now, last, nops, nfaults,
                 is_baseline, baselines>>

\* UPDATE ship_compliance SET cb_gco2eq = cb_gco2eq - amount
BankUpdateCb(w) ==
  LET c == call[w] IN
  /\ c.op = "bank" /\ c.pc = "updateCb"
  /\ call' = [call EXCEPT ![w].pc = "insert",
                          ![w].setCb = (c.shipId :> Round2(ship_compliance[c.shipId] - c.amount))]
  /\ UNCHANGED <<ship_compliance, ship_compliance_rows, bank_entries, bank_entries_id_seq, pools,
                 pools_id_seq, now, last, nops, nfaults,
                 is_baseline, baselines>>

\* INSERT INTO bank_entries (ship_id, year, amount_gco2eq); created_at defaults
\* to CURRENT_TIMESTAMP, the start of the transaction
BankInsert(w) ==
  LET c == call[w] IN
  /\ c.op = "bank" /\ c.pc = "insert"
  /\ call' = [call EXCEPT ![w].pc = "commit",
                          ![w].newRows = (bank_entries_id_seq :>
                             [ship_id |-> c.shipId,
                              amount_gco2eq |-> Round2(c.amount),
                              created_at |-> c.txTime])]
  /\ bank_entries_id_seq' = bank_entries_id_seq + 1
  /\ UNCHANGED <<ship_compliance, ship_compliance_rows, bank_entries, pools, pools_id_seq, now, last,
                 nops, nfaults,
                 is_baseline, baselines>>

\* ------------------------------------------------ applyBankedSurplusToShip
\* POST /banking/apply with amount > 0, then BEGIN
applyBankedSurplusToShip(w, shipId, amount) == Begin(w, "apply", shipId, amount)

\* The same with the check totalBanked <= 0 in the place of totalBanked < amount
ApplySelectTotal_NotPositiveOnly(w) ==
  LET c == call[w]
      totalBanked == getBankedAmountForShip(c.shipId)
  IN
  /\ c.op = "apply" /\ c.pc = "select"
  /\ call' = [call EXCEPT ![w] =
       IF totalBanked <= 0
       THEN [c EXCEPT !.pc = "rollback", !.error = "Insufficient banked surplus",
                      !.totalBanked = totalBanked]
       ELSE [c EXCEPT !.pc = "selectRows", !.totalBanked = totalBanked]]
  /\ UNCHANGED <<ship_compliance, ship_compliance_rows, bank_entries, bank_entries_id_seq, pools,
                 pools_id_seq, now, last, nops, nfaults,
                 is_baseline, baselines>>

\* SELECT COALESCE(SUM(amount_gco2eq), 0) (no lock), and the check on it
ApplySelectTotal(w) ==
  LET c == call[w]
      totalBanked == getBankedAmountForShip(c.shipId)
  IN
  /\ c.op = "apply" /\ c.pc = "select"
  /\ call' = [call EXCEPT ![w] =
       IF totalBanked < c.amount
       THEN [c EXCEPT !.pc = "rollback", !.error = "Insufficient banked surplus",
                      !.totalBanked = totalBanked]
       ELSE [c EXCEPT !.pc = "selectRows", !.totalBanked = totalBanked]]
  /\ UNCHANGED <<ship_compliance, ship_compliance_rows, bank_entries, bank_entries_id_seq, pools,
                 pools_id_seq, now, last, nops, nfaults,
                 is_baseline, baselines>>

\* SELECT id, amount_gco2eq ... ORDER BY created_at ASC; let remaining = amount
ApplySelectRows(w) ==
  LET c == call[w]
      rows == OrderByCreatedAt(RowsOfShip(c.shipId))
  IN
  /\ c.op = "apply" /\ c.pc = "selectRows"
  /\ call' = [call EXCEPT ![w] =
       [c EXCEPT !.rows = rows, !.i = 1, !.remaining = c.amount,
                 !.pc = IF rows = <<>> THEN "updateCb" ELSE "loop"]]
  /\ UNCHANGED <<ship_compliance, ship_compliance_rows, bank_entries, bank_entries_id_seq, pools,
                 pools_id_seq, now, last, nops, nfaults,
                 is_baseline, baselines>>

\* One turn of the for loop: DELETE the entry when entryAmount <= remaining,
\* UPDATE ... SET amount_gco2eq = amount_gco2eq - remaining otherwise.  The
\* statement waits for the row's lock and then finds the row's latest
\* committed version, or no row.  The loop ends after the last row and at the
\* break on remaining <= 0.
ApplyLoop(w) ==
  LET c == call[w]
      entry == c.rows[c.i]
      found == entry.id \in DOMAIN bank_entries
      whole == entry.amount_gco2eq <= c.remaining
      remaining == IF whole THEN c.remaining - entry.amount_gco2eq ELSE 0
  IN
  /\ c.op = "apply" /\ c.pc = "loop"
  /\ ~RowLockedByOther(w, entry.id)
  /\ call' = [call EXCEPT ![w] =
       [c EXCEPT
          !.remaining = remaining,
          !.i = c.i + 1,
          !.pc = IF c.i + 1 > Len(c.rows) \/ remaining <= 0 THEN "updateCb" ELSE "loop",
          !.lockedRows = IF found THEN c.lockedRows \cup {entry.id} ELSE c.lockedRows,
          !.delRows = IF found /\ whole THEN c.delRows \cup {entry.id} ELSE c.delRows,
          !.setRows = IF found /\ ~whole
                      THEN (entry.id :> Round2(bank_entries[entry.id].amount_gco2eq
                                                 - c.remaining)) @@ c.setRows
                      ELSE c.setRows,
          !.touched = Append(c.touched,
                        [id |-> entry.id, whole |-> whole, found |-> found])]]
  /\ UNCHANGED <<ship_compliance, ship_compliance_rows, bank_entries, bank_entries_id_seq, pools,
                 pools_id_seq, now, last, nops, nfaults,
                 is_baseline, baselines>>

\* The same with the new value computed from the balance as it was at BEGIN,
\* a write of currentCb + amount in the place of cb_gco2eq + amount
ApplyUpdateCb_FromSnapshot(w) ==
  LET c == call[w]
      found == c.shipId \in DOMAIN ship_compliance
  IN
  /\ c.op = "apply" /\ c.pc = "updateCb"
  /\ ~ShipLockedByOther(w, c.shipId)
  /\ call' = [call EXCEPT ![w] =
       [c EXCEPT
          !.pc = "commit",
          !.lockedShips = IF found THEN {c.shipId} ELSE {},
          !.setCb = IF found
                    THEN (c.shipId :> Round2(CbIn(c.before[1], c.shipId) + c.amount))
                    ELSE EmptyFn]]
  /\ UNCHANGED <<ship_compliance, ship_compliance_rows, bank_entries, bank_entries_id_seq, pools,
                 pools_id_seq, now, last, nops, nfaults,
                 is_baseline, baselines>>

\* UPDATE ship_compliance SET cb_gco2eq = cb_gco2eq + amount
ApplyUpdateCb(w) ==
  LET c == call[w]
      found == c.shipId \in DOMAIN ship_compliance
  IN
  /\ c.op = "apply" /\ c.pc = "updateCb"
  /\ ~ShipLockedByOther(w, c.shipId)
  /\ call' = [call EXCEPT ![w] =
       [c EXCEPT
          !.pc = "commit",
          !.lockedShips = IF found THEN {c.shipId} ELSE {},
          !.setCb = IF found
                    THEN (c.shipId :> Round2(ship_compliance[c.shipId] + c.amount))
                    ELSE EmptyFn]]
  /\ UNCHANGED <<ship_compliance, ship_compliance_rows, bank_entries, bank_entries_id_seq, pools,
                 pools_id_seq, now, last, nops, nfaults,
                 is_baseline, baselines>>

\* ------------------------------------------------------- the banking routes
\* amounts of request bodies: the request amounts as numbers, zero, a negative
\* number, strings, and no amount
RawAmounts ==
  {Num(a) : a \in Amounts} \cup {Num(0), Num(-Cent)} \cup {Str(s) : s \in Text}
    \cup {Missing}

\* the route's checks and conversion of each of these amounts
Checked ==
  [amount \in RawAmounts |->
     [error |-> AmountError(amount), amountNum |-> amountNum(amount)]]

\* return res.status(400).json({error: ...}): the request ends in the route,
\* which has called nothing
RejectAmount(w, route, amount) ==
  LET c == [Idle EXCEPT !.id = nops + 1, !.op = route, !.raw = amount,
                        !.peers = InFlight, !.before = db]
  IN
  /\ Accepts(w)
  /\ nops' = nops + 1
  /\ last' = [last EXCEPT ![w] = Outcome(c, Checked[amount].error, <<>>)]
  /\ UNCHANGED <<ship_compliance, ship_compliance_rows, bank_entries, bank_entries_id_seq,
                 pools, pools_id_seq, now, call, nfaults,
                 is_baseline, baselines>>

\* router.post('/banking/bank') for a body with a shipId and a year
postBankingBank(w, shipId, amount) ==
  IF Checked[amount].error = ""
  THEN bankSurplusForShip(w, shipId, Checked[amount].amountNum.n)
  ELSE RejectAmount(w, "postBankingBank", amount)

\* router.post('/banking/apply') for a body with a shipId and a year
postBankingApply(w, shipId, amount) ==
  IF Checked[amount].error = ""
  THEN applyBankedSurplusToShip(w, shipId, Checked[amount].amountNum.n)
  ELSE RejectAmount(w, "postBankingApply", amount)

\* ---------------------------------------------------------- computeAndSave
\* SELECT ... FROM routes WHERE route_id = .. AND year = ..; when that finds
\* nothing, the route's row of the latest year
RouteFor(routeId, year) ==
  LET exact == {r \in Routes : r.route_id = routeId /\ r.year = year}
      any == {r \in Routes : r.route_id = routeId}
  IN  IF exact # {} THEN exact
      ELSE {r \in any : \A q \in any : q.year <= r.year}

\* cb = (COMPLIANCE_TARGET - ghgIntensity) * fuelConsumption
ComputeCb(route) == (COMPLIANCE_TARGET - route.ghgIntensity) * route.fuelConsumption

\* INSERT INTO ship_compliance ... ON CONFLICT (ship_id, year) DO UPDATE SET
\* cb_gco2eq = EXCLUDED.cb_gco2eq
Upsert(table, shipId, cb) ==
  [s \in DOMAIN table \cup {shipId} |-> IF s = shipId THEN Round2(cb) ELSE table[s]]

save(shipId, cb) == Upsert(ship_compliance, shipId, cb)

\* The rows of a key after an INSERT that has no ON CONFLICT clause, into a
\* table without the UNIQUE (ship_id, year) constraint: one more
UpsertRows_PlainInsert(rows, shipId) ==
  [s \in DOMAIN rows \cup {shipId} |->
     IF s = shipId
     THEN (IF s \in DOMAIN rows THEN rows[s] ELSE 0) + 1
     ELSE rows[s]]

\* The rows of a key after the same statement: the INSERT adds the key's row
\* when there is none, ON CONFLICT (ship_id, year) DO UPDATE writes to the row
\* there is
UpsertRows(rows, shipId) ==
  [s \in DOMAIN rows \cup {shipId} |->
     IF s \in DOMAIN rows THEN rows[s] ELSE 1]

\* The same with a balance of 0 stored for the ship when no route is found
computeAndSaveWithin_StoresZero(w, shipId, routeId, n) ==
  LET found == RouteFor(routeId, 2024)
      c == [Idle EXCEPT !.id = nops + 1, !.op = "compute", !.shipId = shipId,
                        !.routeId = routeId, !.peers = InFlight, !.before = db]
  IN
  /\ AcceptsWithin(w, n)
  /\ nops' = nops + 1
  /\ ~ShipLocked(shipId)
  /\ \E cb \in IF found = {} THEN {0} ELSE {ComputeCb(route) : route \in found} :
       /\ ship_compliance' = save(shipId, cb)
       /\ ship_compliance_rows' = UpsertRows(ship_compliance_rows, shipId)
       /\ call' = WithMoment(save(shipId, cb))
       /\ last' = [last EXCEPT ![w] =
            Outcome(c, IF found = {} THEN "Route does not exist" ELSE "", <<>>)]
  /\ UNCHANGED <<bank_entries, bank_entries_id_seq, pools, pools_id_seq, now, nfaults,
                 is_baseline, baselines>>

\* The same with the bank entries of the key deleted, as if a new value began
\* a new bank
computeAndSaveWithin_ClearsBank(w, shipId, routeId, n) ==
  LET found == RouteFor(routeId, 2024)
      c == [Idle EXCEPT !.id = nops + 1, !.op = "compute", !.shipId = shipId,
                        !.routeId = routeId, !.peers = InFlight, !.before = db]
  IN
  /\ AcceptsWithin(w, n)
  /\ nops' = nops + 1
  /\ IF found = {}
     THEN /\ last' = [last EXCEPT ![w] = Outcome(c, "Route does not exist", <<>>)]
          /\ UNCHANGED <<ship_compliance, ship_compliance_rows, call, bank_entries>>
     ELSE /\ ~ShipLocked(shipId)
          /\ \E route \in found :
               /\ ship_compliance' = save(shipId, ComputeCb(route))
               /\ ship_compliance_rows' = UpsertRows(ship_compliance_rows, shipId)
               /\ call' = WithMoment(save(shipId, ComputeCb(route)))
               /\ last' = [last EXCEPT ![w] = Outcome(c, "", <<>>)]
               /\ bank_entries' =
                    [id \in {j \in DOMAIN bank_entries : bank_entries[j].ship_id # shipId}
                       |-> bank_entries[id]]
  /\ UNCHANGED <<bank_entries_id_seq, pools, pools_id_seq, now, nfaults,
                 is_baseline, baselines>>

\* POST /ship-compliance/compute: the route lookups, then one autocommitted
\* statement, which waits while another transaction holds the row's lock
computeAndSaveWithin(w, shipId, routeId, n) ==
  LET found == RouteFor(routeId, 2024)
      c == [Idle EXCEPT !.id = nops + 1, !.op = "compute", !.shipId = shipId,
                        !.routeId = routeId, !.peers = InFlight, !.before = db]
  IN
  /\ AcceptsWithin(w, n)
  /\ nops' = nops + 1
  /\ IF found = {}
     THEN /\ last' = [last EXCEPT ![w] = Outcome(c, "Route does not exist", <<>>)]
          /\ UNCHANGED <<ship_compliance, ship_compliance_rows, call>>
     ELSE /\ ~ShipLocked(shipId)
          /\ \E route \in found :
               /\ ship_compliance' = save(shipId, ComputeCb(route))
               /\ ship_compliance_rows' = UpsertRows(ship_compliance_rows, shipId)
               /\ call' = WithMoment(save(shipId, ComputeCb(route)))
               /\ last' = [last EXCEPT ![w] = Outcome(c, "", <<>>)]
  /\ UNCHANGED <<bank_entries, bank_entries_id_seq, pools, pools_id_seq, now, nfaults,
                 is_baseline, baselines>>

computeAndSave(w, shipId, routeId) == computeAndSaveWithin(w, shipId, routeId, MaxOps)

\* -------------------------------------------------------------- createPool
\* memberShipIds of a request that passed the route's checks: a non-empty
\* array of ship ids, repetitions included
MemberLists == UNION {[1..n -> Ships] : n \in 1..MaxMembers}

\* POST /pools; createPool starts reading the members' balances
createPoolWithin(w, memberShipIds, n) ==
  /\ AcceptsWithin(w, n)
  /\ nops' = nops + 1
  /\ call' = [call EXCEPT ![w] =
       [Idle EXCEPT !.id = nops + 1, !.op = "pool", !.pc = "find", !.i = 1,
                    !.memberShipIds = memberShipIds, !.peers = InFlight,
                    !.before = db, !.poolsBefore = pools,
                    !.moments = {ship_compliance}]]
  /\ last' = [last EXCEPT ![w] = NoResult]
  /\ UNCHANGED <<ship_compliance, ship_compliance_rows, bank_entries, bank_entries_id_seq, pools,
                 pools_id_seq, now, nfaults,
                 is_baseline, baselines>>

createPool(w, memberShipIds) == createPoolWithin(w, memberShipIds, MaxOps)

\* The same with a member that has no balance taken as a balance of 0
PoolFind_MissingAsZero(w) ==
  LET c == call[w]
      shipId == c.memberShipIds[c.i]
  IN
  /\ c.op = "pool" /\ c.pc = "find"
  /\ call' = [call EXCEPT ![w] =
       [c EXCEPT !.members = Append(c.members,
                     [shipId |-> shipId, cbBefore |-> CbIn(ship_compliance, shipId)]),
                 !.i = c.i + 1,
                 !.pc = IF c.i = Len(c.memberShipIds) THEN "validate" ELSE "find"]]
  /\ UNCHANGED <<ship_compliance, ship_compliance_rows, bank_entries, bank_entries_id_seq, pools,
                 pools_id_seq, now, last, nops, nfaults,
                 is_baseline, baselines>>

\* findByShipAndYear(shipId, year) for the next member, in a statement of its
\* own; a ship without a row ends the request with an error
PoolFind(w) ==
  LET c == call[w]
      shipId == c.memberShipIds[c.i]
  IN
  /\ c.op = "pool" /\ c.pc = "find"
  /\ IF shipId \notin DOMAIN ship_compliance
     THEN /\ last' = [last EXCEPT ![w] =
                Outcome([c EXCEPT !.shipId = shipId],
                        "Compliance balance not found", <<>>)]
          /\ call' = [call EXCEPT ![w] = Idle]
     ELSE /\ call' = [call EXCEPT ![w] =
                [c EXCEPT !.members = Append(c.members,
                              [shipId |-> shipId, cbBefore |-> ship_compliance[shipId]]),
                          !.i = c.i + 1,
                          !.pc = IF c.i = Len(c.memberShipIds) THEN "validate" ELSE "find"]]
          /\ UNCHANGED last
  /\ UNCHANGED <<ship_compliance, ship_compliance_rows, bank_entries, bank_entries_id_seq, pools,
                 pools_id_seq, now, nops, nfaults,
                 is_baseline, baselines>>

\* poolSum = members.reduce((sum, member) => sum + member.adjustedCB, 0)
PoolSum(members) == SeqSum([k \in DOMAIN members |-> members[k].cbBefore])

\* The check of the sum replaced by a check that every member is in deficit
PoolSumRejected_AllDeficit(members) ==
  \A k \in DOMAIN members : members[k].cbBefore < 0

\* createPool without the check of the sum
PoolSumRejected_Never(members) == FALSE

\* if (poolSum < 0) throw
PoolSumRejected(members) == PoolSum(members) < 0

\* Rule 1 with the comparison the other way round, cbAfter > cbBefore
DeficitExitsWorse_Flipped(members, k) ==
  members[k].cbBefore < 0 /\ PoolSum(members) > Len(members) * members[k].cbBefore

\* The two rules of the Article 21 loop for member k.  cbAfter is
\* poolSum / members.length, so cbAfter < x is poolSum < members.length * x.
DeficitExitsWorse(members, k) ==
  members[k].cbBefore < 0 /\ PoolSum(members) < Len(members) * members[k].cbBefore
SurplusExitsNegative(members, k) ==
  members[k].cbBefore > 0 /\ PoolSum(members) < 0

\* validationErrors: one entry per broken rule, in member order
RECURSIVE ValidationErrorsFrom(_, _)
ValidationErrorsFrom(members, k) ==
  IF k > Len(members) THEN <<>>
  ELSE (IF DeficitExitsWorse(members, k)
        THEN <<[shipId |-> members[k].shipId, rule |-> "deficit exits worse"]>>
        ELSE <<>>)
       \o (IF SurplusExitsNegative(members, k)
           THEN <<[shipId |-> members[k].shipId, rule |-> "surplus exits negative"]>>
           ELSE <<>>)
       \o ValidationErrorsFrom(members, k + 1)

ValidationErrors(members) == ValidationErrorsFrom(members, 1)

\* The pool createPool builds and returns: cbAfter is the quotient
\* poolSum / members.length, kept as a fraction
BuildPool(members, poolId, createdAt) ==
  [poolId |-> poolId, createdAt |-> createdAt, poolSum |-> PoolSum(members),
   members |-> [k \in DOMAIN members |->
      [shipId |-> members[k].shipId, cbBefore |-> members[k].cbBefore,
       cbAfter |-> [num |-> PoolSum(members), den |-> Len(members)]]]]

\* The rows PostgresPoolRepository.save inserts: cb_before and cb_after are
\* DECIMAL(15,2)
PoolRows(pool) ==
  [id |-> pool.poolId, created_at |-> pool.createdAt,
   members |-> [k \in DOMAIN pool.members |->
      [ship_id |-> pool.members[k].shipId,
       cb_before |-> Round2(pool.members[k].cbBefore),
       cb_after |-> Round2Div(pool.members[k].cbAfter.num, pool.members[k].cbAfter.den)]]]

\* The checks of createPool after the last member is read, up to the call of
\* poolRepository.save; createdAt is new Date()
PoolValidate(w) ==
  LET c == call[w]
      errors == ValidationErrors(c.members)
      error == IF PoolSumRejected(c.members)
               THEN "Sum of compliance balances is negative"
               ELSE IF errors # <<>> THEN "Violates Article 21 pooling rules"
               ELSE ""
  IN
  /\ c.op = "pool" /\ c.pc = "validate"
  /\ IF error # ""
     THEN /\ last' = [last EXCEPT ![w] =
                Outcome([c EXCEPT !.touched = errors], error, <<>>)]
          /\ call' = [call EXCEPT ![w] = Idle]
          /\ UNCHANGED now
     ELSE /\ call' = [call EXCEPT ![w].pc = "save", ![w].txTime = now]
          /\ now' = now + 1
          /\ UNCHANGED last
  /\ UNCHANGED <<ship_compliance, ship_compliance_rows, bank_entries, bank_entries_id_seq, pools,
                 pools_id_seq, nops, nfaults,
                 is_baseline, baselines>>

\* PostgresPoolRepository.save: BEGIN; INSERT INTO pools ... RETURNING id.
\* The row is private to the transaction until COMMIT.
PoolSave(w) ==
  LET c == call[w] IN
  /\ c.op = "pool" /\ c.pc = "save"
  /\ pools_id_seq' = pools_id_seq + 1
  /\ call' = [call EXCEPT ![w].pc = "member", ![w].poolId = pools_id_seq, ![w].i = 1]
  /\ UNCHANGED <<ship_compliance, ship_compliance_rows, bank_entries, bank_entries_id_seq, pools, now, last,
                 nops, nfaults,
                 is_baseline, baselines>>

\* INSERT INTO pool_members for the next member.  A ship that an earlier
\* member row of the pool names breaks the primary key (pool_id, ship_id):
\* the statement fails and the catch block runs.
PoolInsertMember(w) ==
  LET c == call[w]
      repeated == \E j \in 1..(c.i - 1) : c.members[j].shipId = c.members[c.i].shipId
  IN
  /\ c.op = "pool" /\ c.pc = "member"
  /\ call' = [call EXCEPT ![w] =
       IF repeated
       THEN [c EXCEPT !.pc = "poolRollback", !.error = "Failed to save pool to database"]
       ELSE [c EXCEPT !.i = c.i + 1,
                      !.pc = IF c.i = Len(c.members) THEN "poolCommit" ELSE "member"]]
  /\ UNCHANGED <<ship_compliance, ship_compliance_rows, bank_entries, bank_entries_id_seq, pools,
                 pools_id_seq, now, last, nops, nfaults,
                 is_baseline, baselines>>

\* the pool row and the member rows the transaction of save has inserted so far
PoolRowsInserted(c) ==
  LET row == PoolRows(BuildPool(c.members, c.poolId, c.txTime))
  IN  IF c.poolId = 0 THEN <<>>
      ELSE <<[row EXCEPT !.members = SubSeq(row.members, 1, c.i - 1)]>>

\* The same, and the members' shares written to their ledger rows
PoolCommit_UpdatesLedger(w) ==
  LET c == call[w]
      pool == BuildPool(c.members, c.poolId, c.txTime)
  IN
  /\ c.op = "pool" /\ c.pc = "poolCommit"
  /\ pools' = pools \o PoolRowsInserted(c)
  /\ ship_compliance' =
       [s \in DOMAIN ship_compliance |->
          IF \E k \in DOMAIN c.members : c.members[k].shipId = s
          THEN Round2Div(PoolSum(c.members), Len(c.members))
          ELSE ship_compliance[s]]
  /\ last' = [last EXCEPT ![w] = Outcome(c, "", <<pool>>)]
  /\ call' = [call EXCEPT ![w] = Idle]
  /\ UNCHANGED <<ship_compliance_rows, bank_entries, bank_entries_id_seq,
                 pools_id_seq, now, nops, nfaults,
                 is_baseline, baselines>>

\* The same with the tables emptied before the rows are inserted
PoolCommit_ReplacesPools(w) ==
  LET c == call[w]
      pool == BuildPool(c.members, c.poolId, c.txTime)
  IN
  /\ c.op = "pool" /\ c.pc = "poolCommit"
  /\ pools' = PoolRowsInserted(c)
  /\ last' = [last EXCEPT ![w] = Outcome(c, "", <<pool>>)]
  /\ call' = [call EXCEPT ![w] = Idle]
  /\ UNCHANGED <<ship_compliance, ship_compliance_rows, bank_entries, bank_entries_id_seq,
                 pools_id_seq, now, nops, nfaults,
                 is_baseline, baselines>>

\* COMMIT; return {...poolData, poolId}
PoolCommit(w) ==
  LET c == call[w]
      pool == BuildPool(c.members, c.poolId, c.txTime)
  IN
  /\ c.op = "pool" /\ c.pc = "poolCommit"
  /\ pools' = pools \o PoolRowsInserted(c)
  /\ last' = [last EXCEPT ![w] = Outcome(c, "", <<pool>>)]
  /\ call' = [call EXCEPT ![w] = Idle]
  /\ UNCHANGED <<ship_compliance, ship_compliance_rows, bank_entries, bank_entries_id_seq, pools_id_seq,
                 now, nops, nfaults,
                 is_baseline, baselines>>

\* A catch block without the ROLLBACK: the rows inserted so far are committed
\* when the connection is used next
PoolRollback_KeepsWrites(w) ==
  LET c == call[w] IN
  /\ c.op = "pool" /\ c.pc = "poolRollback"
  /\ pools' = pools \o PoolRowsInserted(c)
  /\ last' = [last EXCEPT ![w] = Outcome(c, c.error, <<>>)]
  /\ call' = [call EXCEPT ![w] = Idle]
  /\ UNCHANGED <<ship_compliance, ship_compliance_rows, bank_entries, bank_entries_id_seq, pools_id_seq,
                 now, nops, nfaults,
                 is_baseline, baselines>>

\* catch: ROLLBACK; throw new Error('Failed to save pool to database').  The
\* SERIAL is not rolled back.
PoolRollback(w) ==
  LET c == call[w] IN
  /\ c.op = "pool" /\ c.pc = "poolRollback"
  /\ last' = [last EXCEPT ![w] = Outcome(c, c.error, <<>>)]
  /\ call' = [call EXCEPT ![w] = Idle]
  /\ UNCHANGED <<ship_compliance, ship_compliance_rows, bank_entries, bank_entries_id_seq, pools,
                 pools_id_seq, now, nops, nfaults,
                 is_baseline, baselines>>

\* The store fails the statement save is about to run (or its COMMIT)
PoolSaveFails(w) ==
  LET c == call[w] IN
  /\ c.op = "pool" /\ c.pc \in {"save", "member", "poolCommit"}
  /\ nfaults < MaxFaults
  /\ nfaults' = nfaults + 1
  /\ call' = [call EXCEPT ![w].pc = "poolRollback",
                          ![w].error = "Failed to save pool to database"]
  /\ UNCHANGED <<ship_compliance, ship_compliance_rows, bank_entries, bank_entries_id_seq, pools,
                 pools_id_seq, now, last, nops,
                 is_baseline, baselines>>

\* ------------------------------------------------------ the pooling page
\* the characters of some pool names typed into the page
PoolNames == { <<>>, <<" ">>, <<"P">>, <<" ", "P", " ">> }

\* String.prototype.trim: the string without its leading and trailing blanks
RECURSIVE trimStart(_)
trimStart(s) == IF s # <<>> /\ Head(s) = " " THEN trimStart(Tail(s)) ELSE s

RECURSIVE trimEnd(_)
trimEnd(s) ==
  IF s # <<>> /\ s[Len(s)] = " " THEN trimEnd(SubSeq(s, 1, Len(s) - 1)) ELSE s

trim(s) == trimEnd(trimStart(s))

\* the ships of the page that are selected, for the members createPool read:
\* the page shows the balances the server holds
selectedMembers(members) ==
  [k \in DOMAIN members |->
     [shipId |-> members[k].shipId, adjustedCB |-> members[k].cbBefore]]

\* totalCB = selectedMembers.reduce((sum, ship) => sum + ship.adjustedCB, 0)
totalCB(selected) == SeqSum([k \in DOMAIN selected |-> selected[k].adjustedCB])

\* violatesArticle21: some selected ship is in deficit with avgCB below its
\* balance, or in surplus with avgCB < 0.  avgCB is totalCB / length, so
\* avgCB < x is totalCB < length * x.
violatesArticle21(selected) ==
  \E k \in DOMAIN selected :
    LET isDeficit == selected[k].adjustedCB < 0
        isSurplus == selected[k].adjustedCB > 0
    IN  \/ isDeficit /\ totalCB(selected) < Len(selected) * selected[k].adjustedCB
        \/ isSurplus /\ totalCB(selected) < 0

\* The decision with a total that has to be above 0
canCreate_AboveZero(poolName, selected) ==
  /\ totalCB(selected) > 0
  /\ Len(selected) >= 1
  /\ trim(poolName) # <<>>
  /\ ~violatesArticle21(selected)

\* canCreate: the button 'Create Pool' is enabled
canCreate(poolName, selected) ==
  /\ totalCB(selected) >= 0
  /\ Len(selected) >= 1
  /\ trim(poolName) # <<>>
  /\ ~violatesArticle21(selected)

\* ------------------------------------------------------------ setBaseline
\* PostgresRouteRepository.findByRouteId: SELECT ... FROM routes WHERE route_id = ..
findByRouteId(routeId) == {r \in Routes : r.route_id = routeId}

\* the row of routes is locked by an UPDATE of a transaction other than w's
BaselineLockedByOther(w, routeId) ==
  \E v \in Workers \ {w} : routeId \in DOMAIN call[v].setBaseline

\* router.post('/routes/:routeId/baseline'): 404 for a route that does not
\* exist; otherwise the baseline is built from the route and
\* routeUseCase.setBaseline calls saveBaseline, which begins a transaction
postRoutesBaseline(w, routeId) ==
  LET c == [Idle EXCEPT !.id = nops + 1, !.op = "setBaseline", !.pc = "unset",
                        !.routeId = routeId, !.peers = InFlight, !.before = db]
  IN
  /\ AcceptsWithin(w, MaxBaselineOps)
  /\ nops' = nops + 1
  /\ IF findByRouteId(routeId) = {}
     THEN /\ last' = [last EXCEPT ![w] = Outcome(c, "Route not found", <<>>)]
          /\ UNCHANGED call
     ELSE /\ call' = [call EXCEPT ![w] = c]
          /\ last' = [last EXCEPT ![w] = NoResult]
  /\ UNCHANGED <<ship_compliance, ship_compliance_rows, bank_entries, bank_entries_id_seq,
                 pools, pools_id_seq, now, nfaults,
                 is_baseline, baselines>>

\* UPDATE routes SET is_baseline = false WHERE is_baseline = true.  The
\* statement finds its rows in the snapshot taken when it starts; a row that
\* another transaction has updated and not committed makes it wait.
BaselineUnset(w) ==
  LET c == call[w]
      targets == {r \in DOMAIN is_baseline : is_baseline[r]}
  IN
  /\ c.op = "setBaseline" /\ c.pc = "unset"
  /\ call' = [call EXCEPT ![w] =
       IF \E r \in targets : BaselineLockedByOther(w, r)
       THEN [c EXCEPT !.pc = "unsetWait", !.targets = targets]
       ELSE [c EXCEPT !.pc = "set", !.setBaseline = [r \in targets |-> FALSE]]]
  /\ UNCHANGED <<ship_compliance, ship_compliance_rows, bank_entries, bank_entries_id_seq,
                 pools, pools_id_seq, now, last, nops, nfaults,
                 is_baseline, baselines>>

\* The locks the UPDATE waited for are released.  READ COMMITTED: of the rows
\* found in the snapshot, those whose committed version still has
\* is_baseline = true are updated, the others are skipped; rows that became
\* true after the snapshot are not looked at.
BaselineUnsetResume(w) ==
  LET c == call[w] IN
  /\ c.op = "setBaseline" /\ c.pc = "unsetWait"
  /\ \A r \in c.targets : ~BaselineLockedByOther(w, r)
  /\ call' = [call EXCEPT ![w] =
       [c EXCEPT !.pc = "set", !.targets = {},
                 !.setBaseline = [r \in {q \in c.targets : is_baseline[q]} |-> FALSE]]]
  /\ UNCHANGED <<ship_compliance, ship_compliance_rows, bank_entries, bank_entries_id_seq,
                 pools, pools_id_seq, now, last, nops, nfaults,
                 is_baseline, baselines>>

\* UPDATE routes SET is_baseline = true WHERE route_id = $1; waits for the
\* row's lock
BaselineSet(w) ==
  LET c == call[w] IN
  /\ c.op = "setBaseline" /\ c.pc = "set"
  /\ ~BaselineLockedByOther(w, c.routeId)
  /\ call' = [call EXCEPT ![w] =
       [c EXCEPT !.pc = "insert",
                 !.setBaseline = [r \in DOMAIN c.setBaseline \cup {c.routeId} |->
                                    r = c.routeId \/ c.setBaseline[r]]]]
  /\ UNCHANGED <<ship_compliance, ship_compliance_rows, bank_entries, bank_entries_id_seq,
                 pools, pools_id_seq, now, last, nops, nfaults,
                 is_baseline, baselines>>

\* INSERT INTO baselines ... ON CONFLICT (route_id, year) DO UPDATE.  A
\* transaction that holds a row of baselines for this route holds the route's
\* row of routes as well, so the statement never waits.
BaselineInsert(w) ==
  LET c == call[w] IN
  /\ c.op = "setBaseline" /\ c.pc = "insert"
  /\ call' = [call EXCEPT ![w].pc = "baselineCommit"]
  /\ UNCHANGED <<ship_compliance, ship_compliance_rows, bank_entries, bank_entries_id_seq,
                 pools, pools_id_seq, now, last, nops, nfaults,
                 is_baseline, baselines>>

\* COMMIT; return baseline
BaselineCommit(w) ==
  LET c == call[w] IN
  /\ c.op = "setBaseline" /\ c.pc = "baselineCommit"
  /\ is_baseline' = [r \in DOMAIN is_baseline |->
       IF r \in DOMAIN c.setBaseline THEN c.setBaseline[r] ELSE is_baseline[r]]
  /\ baselines' = baselines \cup {c.routeId}
  /\ last' = [last EXCEPT ![w] = Outcome(c, "", <<>>)]
  /\ call' = [call EXCEPT ![w] = Idle]
  /\ UNCHANGED <<ship_compliance, ship_compliance_rows, bank_entries, bank_entries_id_seq,
                 pools, pools_id_seq, now, nops, nfaults>>

\* catch: ROLLBACK; throw 'Failed to save baseline to database'
BaselineRollback(w) ==
  LET c == call[w] IN
  /\ c.op = "setBaseline" /\ c.pc = "baselineRollback"
  /\ last' = [last EXCEPT ![w] = Outcome(c, c.error, <<>>)]
  /\ call' = [call EXCEPT ![w] = Idle]
  /\ UNCHANGED <<ship_compliance, ship_compliance_rows, bank_entries, bank_entries_id_seq,
                 pools, pools_id_seq, now, nops, nfaults,
                 is_baseline, baselines>>

\* The store fails a statement of saveBaseline, or its COMMIT
BaselineFails(w) ==
  LET c == call[w] IN
  /\ c.op = "setBaseline"
  /\ c.pc \in {"unset", "unsetWait", "set", "insert", "baselineCommit"}
  /\ nfaults < MaxFaults
  /\ nfaults' = nfaults + 1
  /\ call' = [call EXCEPT ![w].pc = "baselineRollback",
                          ![w].error = "Failed to save baseline to database"]
  /\ UNCHANGED <<ship_compliance, ship_compliance_rows, bank_entries, bank_entries_id_seq,
                 pools, pools_id_seq, now, last, nops,
                 is_baseline, baselines>>

\* The rows of pools with the oldest created_at first
RECURSIVE ByCreatedAtDesc_Ascending(_)
ByCreatedAtDesc_Ascending(ks) ==
  IF ks = {} THEN <<>>
  ELSE LET first == CHOOSE j \in ks : \A k \in ks :
                      \/ pools[j].created_at < pools[k].created_at
                      \/ pools[j].created_at = pools[k].created_at /\ j <= k
       IN  <<first>> \o ByCreatedAtDesc_Ascending(ks \ {first})

\* PostgresPoolRepository.findAll: pools by created_at DESC, each with its
\* members and poolSum = the sum of the members' cb_after
RECURSIVE ByCreatedAtDesc(_)
ByCreatedAtDesc(ks) ==
  IF ks = {} THEN <<>>
  ELSE LET first == CHOOSE j \in ks : \A k \in ks :
                      \/ pools[j].created_at > pools[k].created_at
                      \/ pools[j].created_at = pools[k].created_at /\ j >= k
       IN  <<first>> \o ByCreatedAtDesc(ks \ {first})

ReadPool(row) ==
  [poolId |-> row.id, createdAt |-> row.created_at,
   poolSum |-> SeqSum([k \in DOMAIN row.members |-> row.members[k].cb_after]),
   members |-> [k \in DOMAIN row.members |->
      [shipId |-> row.members[k].ship_id, cbBefore |-> row.members[k].cb_before,
       cbAfter |-> row.members[k].cb_after]]]

findAll ==
  LET order == ByCreatedAtDesc(DOMAIN pools)
  IN  [k \in DOMAIN order |-> ReadPool(pools[order[k]])]

\* ------------------------------------------------------------ specification
\* The table ship_compliance as computeAndSave leaves it for ship E1 on route
\* R001 and ship E2 on route R002
Computed ==
  LET route(routeId) == CHOOSE r \in RouteFor(routeId, 2024) : TRUE
  IN  Upsert(Upsert(EmptyFn, "E1", ComputeCb(route("R001"))),
             "E2", ComputeCb(route("R002")))

\* The tables after two more requests, which bank 0.01 and then 0.02 of E1's
\* balance: BankUpdateCb and BankInsert, twice
BankedCb == [Computed EXCEPT !["E1"] = Round2(Round2(@ - 100) - 200)]
BankedRows ==
  (1 :> [ship_id |-> "E1", amount_gco2eq |-> Round2(100), created_at |-> 1])
  @@ (2 :> [ship_id |-> "E1", amount_gco2eq |-> Round2(200), created_at |-> 2])

\* The tables are empty, or as earlier requests left them: balances computed,
\* or balances computed and part of E1's banked.
Init ==
  /\ \/ /\ ship_compliance \in {EmptyFn, Computed}
        /\ bank_entries = EmptyFn
        /\ bank_entries_id_seq = 1
        /\ now = 1
     \/ /\ ship_compliance = BankedCb
        /\ bank_entries = BankedRows
        /\ bank_entries_id_seq = 3
        /\ now = 3
  /\ ship_compliance_rows = [s \in DOMAIN ship_compliance |-> 1]
  /\ pools = <<>>
  /\ pools_id_seq = 1
  /\ call = [w \in Workers |-> Idle]
  /\ last = [w \in Workers |-> NoResult]
  /\ nops = 0
  /\ nfaults = 0
  /\ is_baseline = [r \in {q.route_id : q \in Routes} |-> FALSE]
  /\ baselines = {}

Next ==
  \/ \E w \in Workers, shipId \in Ships, amount \in RawAmounts :
       postBankingBank(w, shipId, amount)
  \/ \E w \in Workers : BankSelectForUpdate(w)
  \/ \E w \in Workers : BankUpdateCb(w)
  \/ \E w \in Workers : BankInsert(w)
  \/ \E w \in Workers, shipId \in Ships, amount \in RawAmounts :
       postBankingApply(w, shipId, amount)
  \/ \E w \in Workers : ApplySelectTotal(w)
  \/ \E w \in Workers : ApplySelectRows(w)
  \/ \E w \in Workers : ApplyLoop(w)
  \/ \E w \in Workers : ApplyUpdateCb(w)
  \/ \E w \in Workers : Commit(w)
  \/ \E w \in Workers : Rollback(w)
  \/ \E w \in Workers : StoreFails(w)
  \/ \E w \in Workers, shipId \in Ships, routeId \in RouteIds :
       computeAndSave(w, shipId, routeId)
  \/ \E w \in Workers, memberShipIds \in MemberLists : createPool(w, memberShipIds)
  \/ \E w \in Workers : PoolFind(w)
  \/ \E w \in Workers : PoolValidate(w)
  \/ \E w \in Workers : PoolSave(w)
  \/ \E w \in Workers : PoolInsertMember(w)
  \/ \E w \in Workers : PoolCommit(w)
  \/ \E w \in Workers : PoolRollback(w)
  \/ \E w \in Workers : PoolSaveFails(w)

Spec == Init /\ [][Next]_vars

\* The store answers every statement of a transaction in the end: the lookups,
\* the writes (once the lock they wait for is free), COMMIT and ROLLBACK.
Statement(w) ==
  \/ BankSelectForUpdate(w) \/ BankUpdateCb(w) \/ BankInsert(w)
  \/ ApplySelectTotal(w) \/ ApplySelectRows(w) \/ ApplyLoop(w) \/ ApplyUpdateCb(w)
  \/ Commit(w) \/ Rollback(w)

SpecLive == Spec /\ \A w \in Workers : WF_vars(Statement(w))

\* Pools and computes only, in runs of one request more: a createPool and two
\* computes while it reads.
NextPooling ==
  \/ \E w \in Workers, shipId \in Ships, routeId \in RouteIds :
       computeAndSaveWithin(w, shipId, routeId, MaxPoolOps)
  \/ \E w \in Workers, memberShipIds \in MemberLists :
       createPoolWithin(w, memberShipIds, MaxPoolOps)
  \/ \E w \in Workers : PoolFind(w)
  \/ \E w \in Workers : PoolValidate(w)
  \/ \E w \in Workers : PoolSave(w)
  \/ \E w \in Workers : PoolInsertMember(w)
  \/ \E w \in Workers : PoolCommit(w)
  \/ \E w \in Workers : PoolRollback(w)
  \/ \E w \in Workers : PoolSaveFails(w)

SpecPooling == Init /\ [][NextPooling]_vars

\* setBaseline calls only, in runs of one request more: a baseline is set,
\* then two calls replace it at the same time.
NextBaseline ==
  \/ \E w \in Workers, routeId \in RouteIds : postRoutesBaseline(w, routeId)
  \/ \E w \in Workers : BaselineUnset(w)
  \/ \E w \in Workers : BaselineUnsetResume(w)
  \/ \E w \in Workers : BaselineSet(w)
  \/ \E w \in Workers : BaselineInsert(w)
  \/ \E w \in Workers : BaselineCommit(w)
  \/ \E w \in Workers : BaselineRollback(w)
  \/ \E w \in Workers : BaselineFails(w)

SpecBaseline == Init /\ [][NextBaseline]_vars

\* -------------------------------------------------------------- properties
\* ledger value plus banked total of a key, in the tables d = <<ship_compliance,
\* bank_entries>>
TotalIn(d, shipId) == CbIn(d[1], shipId) + BankedIn(d[2], shipId)

\* The request r (in flight, or returned) ran alone: none was in flight when
\* it started and none has started since.
RanAlone(r) == r.peers = {} /\ r.id = nops

\* C1: bankSurplus and applyBanked conserve value: a bank or apply call that
\* runs on its own, successful or failed, leaves ledger value + banked total
\* of every key as it was before the call.
C1_Conservation ==
  \A w \in Workers :
    LET r == last[w] IN
    (r.op \in {"bank", "apply"} /\ RanAlone(r))
      => \A s \in Ships : TotalIn(db, s) = TotalIn(r.before, s)

\* Conservation does hold for the calls whose amount is a whole number of
\* cents.
ConservationOfWholeCents ==
  \A w \in Workers :
    LET r == last[w] IN
    (r.op \in {"bank", "apply"} /\ RanAlone(r) /\ IsCents(r.amount))
      => \A s \in Ships : TotalIn(db, s) = TotalIn(r.before, s)

\* C2: two overlapping applyBanked calls on one key never both succeed with
\* amounts that add up to more than the banked total there was before them
\* (stated for amounts of whole cents).
C2_NoDoubleApply ==
  \A w, v \in Workers :
    LET r1 == last[w]
        r2 == last[v]
    IN  ( /\ w # v
          /\ r1.op = "apply" /\ r2.op = "apply"
          /\ r1.error = "" /\ r2.error = ""
          /\ r1.shipId = r2.shipId
          /\ r1.id \in r2.peers
          /\ IsCents(r1.amount) /\ IsCents(r2.amount) )
        => r1.amount + r2.amount <= BankedIn(r2.before[2], r2.shipId)

\* C3: two overlapping bankSurplus calls on one key never both succeed with
\* amounts that add up to more than the ledger value there was before them.
C3_NoDoubleBank ==
  \A w, v \in Workers :
    LET r1 == last[w]
        r2 == last[v]
    IN  ( /\ w # v
          /\ r1.op = "bank" /\ r2.op = "bank"
          /\ r1.error = "" /\ r2.error = ""
          /\ r1.shipId = r2.shipId
          /\ r1.id \in r2.peers )
        => r1.amount + r2.amount <= CbIn(r2.before[1], r2.shipId)

\* The row lock of SELECT ... FOR UPDATE does serialise the bank calls of a
\* key: at most one is past its validation, the value it validated is the
\* committed ledger value until it commits, and overlapping banks of whole
\* cents never take more than the ledger held.
BanksSerialised ==
  /\ \A w, v \in Workers :
       ( /\ w # v
         /\ call[w].op = "bank" /\ call[v].op = "bank"
         /\ call[w].shipId = call[v].shipId
         /\ call[w].pc \in {"updateCb", "insert", "commit"} )
       => call[v].pc \in {"select", "rollback"} /\ call[v].lockedShips = {}
  /\ \A w \in Workers :
       (call[w].op = "bank" /\ call[w].pc \in {"updateCb", "insert", "commit"})
       => ship_compliance[call[w].shipId] = call[w].currentCb
  /\ \A w, v \in Workers :
       LET r1 == last[w]
           r2 == last[v]
       IN  ( /\ w # v
             /\ r1.op = "bank" /\ r2.op = "bank"
             /\ r1.error = "" /\ r2.error = ""
             /\ r1.shipId = r2.shipId
             /\ r1.id \in r2.peers
             /\ IsCents(r1.amount) /\ IsCents(r2.amount) )
           => r1.amount + r2.amount <= CbIn(r2.before[1], r2.shipId)

\* C4: every bank entry in the store has an amount greater than zero, after
\* any operations, overlapping ones included.
C4_EntriesPositive ==
  \A id \in DOMAIN bank_entries : bank_entries[id].amount_gco2eq > 0

C6_BankInsufficient ==
  \A w \in Workers :
    LET c == call[w]
        r == last[w]
    IN
    /\ (c.op = "bank" /\ c.pc \in {"updateCb", "insert", "commit"})
         => c.currentCb >= c.amount /\ c.currentCb > 0
    /\ (r.op = "bank" /\ r.error = "")
         => r.currentCb >= r.amount /\ r.currentCb > 0
    /\ (r.op = "bank" /\ RanAlone(r) /\ r.shipId \in DOMAIN r.before[1]
          /\ r.error # "store failure"
          /\ (r.before[1][r.shipId] < r.amount \/ r.before[1][r.shipId] <= 0))
         => r.error = "Insufficient surplus"
    /\ (c.op = "bank" /\ c.error = "Insufficient surplus")
         => c.setCb = EmptyFn /\ c.newRows = EmptyFn
    /\ (r.op = "bank" /\ r.error = "Insufficient surplus")
         => /\ ~r.wrote
            /\ RanAlone(r) => db = r.before

\* a bank of more than the positive ledger value has failed
C6_Witness ==
  \E w \in Workers :
    LET r == last[w] IN
    /\ r.op = "bank" /\ r.error = "Insufficient surplus" /\ RanAlone(r)
    /\ r.currentCb > 0 /\ r.currentCb < r.amount

\* C7: applyBanked fails with 'Insufficient banked surplus' when the banked
\* total of the key is less than the amount: an apply that is past its
\* validation read a total of at least the amount, and an apply that ran
\* alone on a smaller total ended with that error.  When it fails no bank
\* entry is deleted or changed and the ledger is not changed.
C7_ApplyInsufficient ==
  \A w \in Workers :
    LET c == call[w]
        r == last[w]
    IN
    /\ (c.op = "apply" /\ c.pc \in {"selectRows", "loop", "updateCb", "commit"})
         => c.totalBanked >= c.amount
    /\ (r.op = "apply" /\ r.error = "") => r.totalBanked >= r.amount
    /\ (r.op = "apply" /\ RanAlone(r) /\ r.error # "store failure"
          /\ BankedIn(r.before[2], r.shipId) < r.amount)
         => r.error = "Insufficient banked surplus"
    /\ (c.op = "apply" /\ c.error = "Insufficient banked surplus")
         => c.delRows = {} /\ c.setRows = EmptyFn /\ c.setCb = EmptyFn
    /\ (r.op = "apply" /\ r.error = "Insufficient banked surplus")
         => /\ r.totalBanked < r.amount
            /\ ~r.wrote
            /\ RanAlone(r) => db = r.before

\* an apply of more than the positive banked total has failed
C7_Witness ==
  \E w \in Workers :
    LET r == last[w] IN
    /\ r.op = "apply" /\ r.error = "Insufficient banked surplus" /\ RanAlone(r)
    /\ r.totalBanked > 0 /\ r.totalBanked < r.amount

\* C8: a bank or apply that fails part-way through its transaction, after
\* some of its writes, leaves the committed tables as they were before the
\* call, and none of its writes is in the committed tables before it commits.
C8_FailureIsAtomic ==
  \A w \in Workers :
    LET c == call[w]
        r == last[w]
    IN
    /\ (r.op \in {"bank", "apply"} /\ r.error # "" /\ RanAlone(r)) => db = r.before
    /\ (c.op \in {"bank", "apply"} /\ RanAlone(c)) => db = c.before

\* an apply that the store failed after it had written has returned
C8_Witness ==
  \E w \in Workers :
    LET r == last[w] IN
    /\ r.op = "apply" /\ r.error = "store failure" /\ r.wrote /\ RanAlone(r)

\* C9: every stored pool satisfies Article 21: the members' balances before
\* pooling sum to zero or more, no deficit member exits worse than it
\* entered, and no surplus member exits negative; so does every pool
\* createPool returns.
C9_StoredPoolsSatisfyArticle21 ==
  /\ \A k \in DOMAIN pools :
       LET m == pools[k].members IN
       /\ SeqSum([j \in DOMAIN m |-> m[j].cb_before]) >= 0
       /\ \A j \in DOMAIN m :
            /\ m[j].cb_before < 0 => m[j].cb_after >= m[j].cb_before
            /\ m[j].cb_before > 0 => m[j].cb_after >= 0
  /\ \A w \in Workers : \A k \in DOMAIN last[w].pool :
       LET m == last[w].pool[k].members IN
       /\ SeqSum([j \in DOMAIN m |-> m[j].cbBefore]) >= 0
       /\ \A j \in DOMAIN m :
            /\ m[j].cbBefore < 0 => m[j].cbAfter.num >= m[j].cbAfter.den * m[j].cbBefore
            /\ m[j].cbBefore > 0 => m[j].cbAfter.num >= 0

\* a pool of a deficit ship and a surplus ship is stored
C9_Witness ==
  \E k \in DOMAIN pools :
    LET m == pools[k].members IN
    /\ \E j \in DOMAIN m : m[j].cb_before < 0
    /\ \E j \in DOMAIN m : m[j].cb_before > 0

\* the sum of the members' cbBefore of a pool read back from the tables
SumBefore(p) == SeqSum([j \in DOMAIN p.members |-> p.members[j].cbBefore])

\* The members of a pool read back have one cbAfter, and it is
\* sum of cbBefore / n to the half cent a DECIMAL(15,2) column rounds by.
SharesWithinRounding(p) ==
  LET n == Len(p.members) IN
  /\ \A j, k \in DOMAIN p.members : p.members[j].cbAfter = p.members[k].cbAfter
  /\ \A j \in DOMAIN p.members :
       2 * Abs(n * p.members[j].cbAfter - SumBefore(p)) <= n * Cent
  /\ 2 * Abs(SeqSum([j \in DOMAIN p.members |-> p.members[j].cbAfter]) - SumBefore(p))
       <= n * Cent

\* The pool createPool returns has poolSum = sum of cbBefore and every
\* cbAfter = poolSum / n.
ReturnedPoolSumIdentity ==
  \A w \in Workers : \A k \in DOMAIN last[w].pool :
    LET p == last[w].pool[k]
        n == Len(p.members)
    IN  /\ p.poolSum = SumBefore(p)
        /\ \A j \in DOMAIN p.members :
             n * p.members[j].cbAfter.num = p.members[j].cbAfter.den * p.poolSum

\* C10: for every pool, as createPool returns it and as getAllPools and
\* getPool read it back, poolSum is the sum of the members' cbBefore, every
\* member has the same cbAfter = poolSum / n (n the number of members), and
\* the members' cbAfter add up to the sum of cbBefore, within the rounding of
\* the division.
C10_PoolSumIdentity ==
  /\ ReturnedPoolSumIdentity
  /\ \A k \in DOMAIN findAll :
       /\ findAll[k].poolSum = SumBefore(findAll[k])
       /\ SharesWithinRounding(findAll[k])

\* What does hold of the pools read back: the shares, within rounding.
ReadPoolSharesWithinRounding ==
  \A k \in DOMAIN findAll : SharesWithinRounding(findAll[k])

\* the sum, in the ledger table, of the balances of the ships ids names (all
\* of them with a row)
LedgerSum(table, ids) == SeqSum([k \in DOMAIN ids |-> table[ids[k]]])

\* C11: createPool is rejected with 'Sum of compliance balances is negative'
\* whenever the members' ledger values sum to less than 0: a createPool that
\* got past the check, or succeeded, read balances that sum to 0 or more; one
\* that ran alone on balances of a negative sum ended with that error; and
\* the rejected call wrote no pool and no member row.
C11_NegativePoolSum ==
  \A w \in Workers :
    LET c == call[w]
        r == last[w]
    IN
    /\ (c.op = "pool" /\ c.pc \in {"save", "member", "poolCommit", "poolRollback"})
         => PoolSum(c.members) >= 0
    /\ (r.op = "pool" /\ r.error = "") => PoolSum(r.members) >= 0
    /\ (r.op = "pool" /\ RanAlone(r)
          /\ (\A k \in DOMAIN r.memberShipIds : r.memberShipIds[k] \in DOMAIN r.before[1])
          /\ LedgerSum(r.before[1], r.memberShipIds) < 0)
         => r.error = "Sum of compliance balances is negative"
    /\ (r.op = "pool" /\ r.error = "Sum of compliance balances is negative")
         => /\ PoolSum(r.members) < 0
            /\ ~r.wrote
            /\ RanAlone(r) => pools = r.poolsBefore

\* a pool of two members was rejected for its negative sum
C11_Witness ==
  \E w \in Workers :
    LET r == last[w] IN
    /\ r.op = "pool" /\ r.error = "Sum of compliance balances is negative"
    /\ RanAlone(r) /\ Len(r.members) = 2
    /\ r.members[1].shipId # r.members[2].shipId

\* C12: createPool fails with 'Compliance balance not found' for a member
\* that has no ledger row, whatever the balances of the other members, and
\* writes no pool and no member row: a createPool that ran alone with a
\* member without a row ended with that error, naming such a member; a
\* createPool that got past the reads found a row for every member.
C12_MissingBalance ==
  \A w \in Workers :
    LET c == call[w]
        r == last[w]
    IN
    /\ (r.op = "pool" /\ RanAlone(r)
          /\ \E k \in DOMAIN r.memberShipIds : r.memberShipIds[k] \notin DOMAIN r.before[1])
         => /\ r.error = "Compliance balance not found"
            /\ r.shipId \notin DOMAIN r.before[1]
            /\ pools = r.poolsBefore
    /\ (r.op = "pool" /\ r.error = "Compliance balance not found")
         => /\ ~r.wrote
            /\ Len(r.members) < Len(r.memberShipIds)
            /\ r.shipId = r.memberShipIds[Len(r.members) + 1]
    /\ (c.op = "pool" /\ c.pc # "find") => Len(c.members) = Len(c.memberShipIds)
    /\ (r.op = "pool" /\ r.error # "Compliance balance not found")
         => Len(r.members) = Len(r.memberShipIds)

\* a pool of a ship with a balance and a ship without one has failed
C12_Witness ==
  \E w \in Workers :
    LET r == last[w] IN
    /\ r.op = "pool" /\ r.error = "Compliance balance not found" /\ RanAlone(r)
    /\ Len(r.members) = 1
    /\ r.shipId # r.members[1].shipId

\* C13: createPool, successful or not, leaves every ledger value and every
\* bank entry as it was: after (and during) a createPool that ran alone both
\* tables are as before the call, and after a successful one each member's
\* ledger value is still its cbBefore.
C13_PoolLeavesLedger ==
  \A w \in Workers :
    LET c == call[w]
        r == last[w]
    IN
    /\ (c.op = "pool" /\ RanAlone(c)) => db = c.before
    /\ (r.op = "pool" /\ RanAlone(r)) => db = r.before
    /\ (r.op = "pool" /\ RanAlone(r) /\ r.error = "")
         => \A k \in DOMAIN r.members :
              ship_compliance[r.members[k].shipId] = r.members[k].cbBefore

\* a pool that gives a member a share other than its balance is stored
C13_Witness ==
  \E w \in Workers :
    LET r == last[w] IN
    /\ r.op = "pool" /\ r.error = "" /\ RanAlone(r)
    /\ \E k \in DOMAIN r.pool[1].members :
         LET m == r.pool[1].members[k] IN m.cbAfter.num # m.cbAfter.den * m.cbBefore

\* C14: pool creation is all or nothing: after a createPool that ran alone,
\* the tables hold the pools there were and, if it succeeded, one more pool
\* with one member row per requested member, in the order requested; if it
\* failed (also on a repeated ship or a store failure between member rows)
\* they hold the pools there were; until it commits none of its rows is in the
\* tables; and every pool in the tables has members, no ship twice.
C14_PoolAllOrNothing ==
  /\ \A w \in Workers :
       LET c == call[w]
           r == last[w]
       IN
       /\ (c.op = "pool" /\ RanAlone(c)) => pools = c.poolsBefore
       /\ (r.op = "pool" /\ RanAlone(r) /\ r.error # "") => pools = r.poolsBefore
       /\ (r.op = "pool" /\ RanAlone(r) /\ r.error = "")
            => /\ Len(pools) = Len(r.poolsBefore) + 1
               /\ SubSeq(pools, 1, Len(r.poolsBefore)) = r.poolsBefore
               /\ LET row == pools[Len(pools)] IN
                  /\ Len(row.members) = Len(r.memberShipIds)
                  /\ \A k \in DOMAIN row.members :
                       row.members[k].ship_id = r.memberShipIds[k]
  /\ \A k \in DOMAIN pools :
       /\ pools[k].members # <<>>
       /\ \A i, j \in DOMAIN pools[k].members :
            i # j => pools[k].members[i].ship_id # pools[k].members[j].ship_id

\* a createPool with a repeated ship failed after it had inserted rows
C14_Witness ==
  \E w \in Workers :
    LET r == last[w] IN
    /\ r.op = "pool" /\ r.error = "Failed to save pool to database"
    /\ r.wrote /\ RanAlone(r)
    /\ Len(r.memberShipIds) = 2 /\ r.memberShipIds[1] = r.memberShipIds[2]

\* member lists of one to three members over a few balances, deficits and
\* surpluses of 0.01 and 0.02 and the balance 0
BalanceLists ==
  LET Balances == {-2 * Cent, -Cent, 0, Cent, 2 * Cent} IN
  UNION { {[k \in 1..n |-> [shipId |-> "E1", cbBefore |-> b[k]]] : b \in [1..n -> Balances]}
          : n \in 1..3 }

\* C15 as claimed: the check of the sum and the checks of the members are
\* independent: there are member balances whose sum is 0 or more and which
\* the checks of the members reject, among the lists createPool has read
\* and the lists of BalanceLists.
C15_ChecksIndependent ==
  \E members \in BalanceLists \cup {call[w].members : w \in Workers} :
    /\ members # <<>>
    /\ ~PoolSumRejected(members)
    /\ ValidationErrors(members) # <<>>

\* C15, amended: the check of the sum implies the checks of the members:
\* whenever the balances createPool read sum to 0 or more, no member breaks
\* a rule, and createPool never fails with 'Violates Article 21 pooling rules'.
C15_SumCheckImpliesMemberChecks ==
  \A w \in Workers :
    LET c == call[w] IN
    /\ (c.op = "pool" /\ c.members # <<>> /\ ~PoolSumRejected(c.members))
         => ValidationErrors(c.members) = <<>>
    /\ last[w].error # "Violates Article 21 pooling rules"

\* a pool with a deficit member and a surplus member has passed the checks
C15_Witness ==
  \E w \in Workers :
    LET c == call[w] IN
    /\ c.op = "pool" /\ c.pc = "save"
    /\ \E k \in DOMAIN c.members : c.members[k].cbBefore < 0
    /\ \E k \in DOMAIN c.members : c.members[k].cbBefore > 0

\* the values computeAndSave can store: the rounded balance of a route
ComputedValues == {Round2(ComputeCb(route)) : route \in Routes}

\* C17: ship_compliance holds at most one row per key, and exactly one for a
\* key that has a balance; a compute of a key that has a balance overwrites
\* the value of its row and leaves the other keys' rows alone.
C17_OneBalancePerKey ==
  /\ DOMAIN ship_compliance_rows = DOMAIN ship_compliance
  /\ \A s \in DOMAIN ship_compliance_rows : ship_compliance_rows[s] = 1
  /\ \A w \in Workers :
       LET r == last[w] IN
       (r.op = "compute" /\ r.error = "" /\ RanAlone(r))
         => /\ r.shipId \in DOMAIN ship_compliance
            /\ ship_compliance[r.shipId] \in ComputedValues
            /\ DOMAIN ship_compliance = DOMAIN r.before[1] \cup {r.shipId}
            /\ \A s \in DOMAIN ship_compliance \ {r.shipId} :
                 ship_compliance[s] = r.before[1][s]

\* a compute has replaced the value of a key that had a balance
C17_Witness ==
  \E w \in Workers :
    LET r == last[w] IN
    /\ r.op = "compute" /\ r.error = "" /\ RanAlone(r)
    /\ r.shipId \in DOMAIN r.before[1]
    /\ ship_compliance[r.shipId] # r.before[1][r.shipId]
    /\ ship_compliance_rows[r.shipId] = 1

\* ------------------------------------------- bank and apply, one at a time
\* The two operations run from BEGIN to COMMIT with no other transaction,
\* on tables d = <<ship_compliance, bank_entries>>: what they return and the
\* tables they leave.

\* bankSurplusForShip alone; the new entry takes the next free id and a
\* created_at later than that of every entry there is
SeqBank(d, shipId, amount) ==
  LET ids == DOMAIN d[2]
      id == IF ids = {} THEN 1 ELSE 1 + (CHOOSE x \in ids : \A y \in ids : y <= x)
      times == {d[2][x].created_at : x \in ids}
      created == IF ids = {} THEN 1
                 ELSE 1 + (CHOOSE t \in times : \A u \in times : u <= t)
  IN  IF shipId \notin DOMAIN d[1]
      THEN [db |-> d, error |-> "No compliance balance found"]
      ELSE IF d[1][shipId] < amount
      THEN [db |-> d, error |-> "Insufficient surplus"]
      ELSE [db |-> <<[d[1] EXCEPT ![shipId] = Round2(@ - amount)],
                     d[2] @@ (id :> [ship_id |-> shipId,
                                     amount_gco2eq |-> Round2(amount),
                                     created_at |-> created])>>,
            error |-> ""]

\* ORDER BY created_at ASC over the rows ids of a table rows
RECURSIVE OrderIn(_, _)
OrderIn(rows, ids) ==
  IF ids = {} THEN <<>>
  ELSE LET first == CHOOSE x \in ids : \A y \in ids :
                      \/ rows[x].created_at < rows[y].created_at
                      \/ /\ rows[x].created_at = rows[y].created_at
                         /\ x <= y
       IN  <<first>> \o OrderIn(rows, ids \ {first})

\* the for loop of applyBankedSurplusToShip over the entries in order
RECURSIVE Consume(_, _, _)
Consume(rows, order, remaining) ==
  IF order = <<>> \/ remaining <= 0 THEN rows
  ELSE LET id == Head(order)
           entryAmount == rows[id].amount_gco2eq
       IN  IF entryAmount <= remaining
           THEN Consume([j \in DOMAIN rows \ {id} |-> rows[j]], Tail(order),
                        remaining - entryAmount)
           ELSE [rows EXCEPT ![id].amount_gco2eq = Round2(entryAmount - remaining)]

\* applyBankedSurplusToShip alone
SeqApply(d, shipId, amount) ==
  LET mine == {id \in DOMAIN d[2] : d[2][id].ship_id = shipId} IN
  IF BankedIn(d[2], shipId) < amount
  THEN [db |-> d, error |-> "Insufficient banked surplus"]
  ELSE [db |-> <<IF shipId \in DOMAIN d[1]
                 THEN [d[1] EXCEPT ![shipId] = Round2(@ + amount)]
                 ELSE d[1],
                 Consume(d[2], OrderIn(d[2], mine), amount)>>,
        error |-> ""]

SeqCall(d, r) ==
  IF r.op = "bank" THEN SeqBank(d, r.shipId, r.amount)
  ELSE SeqApply(d, r.shipId, r.amount)

\* Tables d seen from tables old: the ledger, the entries old had, and ship
\* and amount of the entries added since (their ids and times left out)
Seen(d, old) ==
  <<d[1],
    [id \in DOMAIN d[2] \cap DOMAIN old[2] |-> d[2][id]],
    {[ship_id |-> d[2][id].ship_id, amount_gco2eq |-> d[2][id].amount_gco2eq] :
       id \in DOMAIN d[2] \ DOMAIN old[2]}>>

\* outcomes a and b are as the calls run one after the other from tables d0,
\* a first, and the tables are what that run leaves
InOrder(d0, a, b) ==
  LET first == SeqCall(d0, a)
      second == SeqCall(first.db, b)
  IN  /\ a.error = first.error
      /\ b.error = second.error
      /\ Seen(db, d0) = Seen(second.db, d0)

\* a bank and an apply for one key that overlapped, with no other request
\* since the first began and no failure of the store
BankApplyPair(a, b) ==
  /\ a.op = "bank" /\ b.op = "apply"
  /\ a.shipId = b.shipId
  /\ a.error # "store failure" /\ b.error # "store failure"
  /\ \/ a.id + 1 = b.id /\ b.peers = {a.id} /\ a.peers = {}
     \/ b.id + 1 = a.id /\ a.peers = {b.id} /\ b.peers = {}
  /\ nops \in {a.id, b.id}

\* C18: a bank and an apply for one key that overlap leave the ledger and the
\* bank entries, and return success or the failure, as the two calls run one
\* after the other in one of the two orders; and a call that runs alone is
\* its run from BEGIN to COMMIT.
C18_BankApplyLinearizable ==
  /\ \A v \in Workers, w \in Workers :
       LET a == last[v]
           b == last[w]
           d0 == IF a.id < b.id THEN a.before ELSE b.before
       IN  BankApplyPair(a, b) => (InOrder(d0, a, b) \/ InOrder(d0, b, a))
  /\ \A w \in Workers :
       LET r == last[w] IN
       (r.op \in {"bank", "apply"} /\ RanAlone(r) /\ r.error # "store failure")
         => LET alone == SeqCall(r.before, r)
            IN  r.error = alone.error /\ Seen(db, r.before) = Seen(alone.db, r.before)

\* a bank and an apply for one key overlapped and both succeeded
C18_Witness ==
  \E v \in Workers, w \in Workers :
    /\ BankApplyPair(last[v], last[w])
    /\ last[v].error = "" /\ last[w].error = ""
    /\ last[w].rows # <<>>

\* C19: the balances a stored pool records for its members are a consistent
\* read: at one moment of the createPool call the ledger held all of them.
C19_ConsistentRead ==
  \A w \in Workers :
    LET r == last[w] IN
    (r.op = "pool" /\ r.error = "")
      => \E m \in r.moments :
           \A k \in DOMAIN r.members :
             CbIn(m, r.members[k].shipId) = r.members[k].cbBefore

\* The same for a createPool during which the ledger did not change: the
\* recorded balances are the ledger's at the start of the call.
ConsistentReadAlone ==
  \A w \in Workers :
    LET r == last[w] IN
    (r.op = "pool" /\ r.error = "" /\ Cardinality(r.moments) = 1)
      => \A k \in DOMAIN r.members :
           CbIn(r.before[1], r.members[k].shipId) = r.members[k].cbBefore

\* an apply that succeeded, alone, right after a bank of the same key and
\* amount that succeeded alone
AppliedAfterBank(r) ==
  r.op = "apply" /\ r.error = "" /\ RanAlone(r) /\ r.prev # <<>>

\* C20: a successful bank(x) followed by a successful apply(x) of the same
\* key leaves the key's ledger value and banked total as they were before
\* the bank.
C20_BankThenApplyRestores ==
  \A w \in Workers :
    LET r == last[w] IN
    AppliedAfterBank(r)
      => /\ CbIn(ship_compliance, r.shipId) = CbIn(r.prev[1][1], r.shipId)
         /\ getBankedAmountForShip(r.shipId) = BankedIn(r.prev[1][2], r.shipId)

\* The same for amounts of whole cents.
BankThenApplyRestoresWholeCents ==
  \A w \in Workers :
    LET r == last[w] IN
    (AppliedAfterBank(r) /\ IsCents(r.amount))
      => /\ CbIn(ship_compliance, r.shipId) = CbIn(r.prev[1][1], r.shipId)
         /\ getBankedAmountForShip(r.shipId) = BankedIn(r.prev[1][2], r.shipId)

BankThenApplyHappens ==
  \E w \in Workers : AppliedAfterBank(last[w]) /\ IsCents(last[w].amount)

RejectedByRoute(r) == r.op \in {"postBankingBank", "postBankingApply"}

C23_CallsComplete ==
  \A w \in Workers :
    (call[w].op \in {"bank", "apply"})
      ~> (call[w].op = "idle" /\ last[w].op \in {"bank", "apply"}
          /\ call[w].lockedShips = {} /\ call[w].lockedRows = {})

\* an apply that holds the locks of entries waits for the lock of the ledger
\* row, which a bank holds
C23_Witness ==
  \E v \in Workers, w \in Workers :
    /\ call[v].op = "bank" /\ call[w].op = "apply"
    /\ call[w].pc = "updateCb" /\ call[w].lockedRows # {}
    /\ call[w].shipId \in call[v].lockedShips

\* the rows of key shipId in tables d = <<ship_compliance, bank_entries>>
OwnPart(d, shipId) ==
  <<[s \in DOMAIN d[1] \cap {shipId} |-> d[1][s]],
    [id \in {x \in DOMAIN d[2] : d[2][x].ship_id = shipId} |-> d[2][id]]>>

\* the rows of all other keys
OtherPart(d, shipId) ==
  <<[s \in DOMAIN d[1] \ {shipId} |-> d[1][s]],
    [id \in {x \in DOMAIN d[2] : d[2][x].ship_id # shipId} |-> d[2][id]]>>

\* Every request that ran while call r ran, or after it, is known (it is a
\* worker's call or last outcome) and was for another key than r's, or wrote
\* to no key (a createPool, a request its route rejected).
OthersElsewhere(r) ==
  LET known == {call[v] : v \in Workers} \cup {last[v] : v \in Workers}
      ids == (r.peers \cup (r.id + 1)..nops)
  IN  \A id \in ids :
        \E o \in known :
          /\ o.id = id
          /\ o.op \in {"bank", "apply", "compute"} => o.shipId # r.shipId

\* C24: a bank or apply of one key leaves the ledger value and the entries
\* of every other key as they were, and what it returns and does to its own
\* key is what it returns and does on tables that hold its own key's rows
\* only, whatever the other keys hold and whatever requests for other keys
\* run at the same time.
C24_KeysIndependent ==
  \A w \in Workers :
    LET r == last[w]
        own == OwnPart(r.before, r.shipId)
        alone == SeqCall(own, r)
    IN  (r.op \in {"bank", "apply"} /\ r.error # "store failure")
          => /\ RanAlone(r) => OtherPart(db, r.shipId) = OtherPart(r.before, r.shipId)
             /\ OthersElsewhere(r)
                  => /\ r.error = alone.error
                     /\ Seen(OwnPart(db, r.shipId), own) = Seen(alone.db, own)

\* a bank of one key succeeded while an apply of another key ran and failed
\* for want of banked surplus, of which the first key had enough
C24_Witness ==
  \E v \in Workers, w \in Workers :
    LET a == last[v]
        b == last[w]
    IN  /\ a.op = "bank" /\ a.error = ""
        /\ b.op = "apply" /\ b.error = "Insufficient banked surplus"
        /\ a.shipId # b.shipId
        /\ a.id \in b.peers \/ b.id \in a.peers
        /\ BankedIn(bank_entries, a.shipId) >= b.amount
        /\ OthersElsewhere(a) /\ OthersElsewhere(b)

\* C25: pools are write-once: no step of any request changes or deletes a
\* stored pool or a row of its members; a step adds pools after those there
\* are, or leaves the tables as they are.
C25_PoolsWriteOnce ==
  [][/\ Len(pools') >= Len(pools)
     /\ SubSeq(pools', 1, Len(pools)) = pools]_vars

\* a second pool has been stored after the first, and a bank, an apply or a
\* compute has written to the ledger of a member of a stored pool
TwoPoolsStored == Len(pools) = 2

WroteToMemberOfPool ==
  /\ pools # <<>>
  /\ \E w \in Workers :
       LET r == last[w] IN
       /\ r.op \in {"bank", "apply", "compute"} /\ r.error = ""
       /\ r.id > 1
       /\ \E k \in DOMAIN pools[1].members : pools[1].members[k].ship_id = r.shipId
       /\ CbIn(ship_compliance, r.shipId) # CbIn(r.before[1], r.shipId)

C25_Witness == TwoPoolsStored \/ WroteToMemberOfPool

\* ------------------------------------------------------------------- C26
\* the places of the result of getAllPools at which the stored pool row shows
PlacesOf(row) == {k \in DOMAIN findAll : findAll[k].poolId = row.id}

PlaceOf(row) == CHOOSE k \in PlacesOf(row) : TRUE

\* every stored pool is in the result once, and nothing else is
EveryPoolOnce ==
  /\ Len(findAll) = Len(pools)
  /\ \A j \in DOMAIN pools : Cardinality(PlacesOf(pools[j])) = 1

\* C26 as stated: getAllPools returns every stored pool exactly once, and a
\* pool that was committed after another one comes before it in the result.
\* The rows of pools are kept in the order of their commits.
C26_MostRecentlyCommittedFirst ==
  /\ EveryPoolOnce
  /\ \A j, k \in DOMAIN pools :
        j < k => PlaceOf(pools[k]) < PlaceOf(pools[j])

\* C26, amended: getAllPools returns every stored pool exactly once, ordered
\* by createdAt descending, createdAt being the time at which createPool
\* built the pool, before it was saved.  A pool therefore comes before every
\* pool that was already committed when its own createPool request arrived.
C26_LatestCreatedAtFirst ==
  /\ EveryPoolOnce
  /\ \A a, b \in DOMAIN findAll :
        a < b => findAll[a].createdAt > findAll[b].createdAt
  /\ \A w \in Workers :
        LET r == last[w] IN
        (r.op = "pool" /\ r.error = "") =>
          \A j \in DOMAIN r.poolsBefore :
            \E a, b \in DOMAIN findAll :
              /\ a < b
              /\ findAll[a].poolId = r.pool[1].poolId
              /\ findAll[b].poolId = r.poolsBefore[j].id

\* two pools are stored, by requests that ran one after the other or by
\* requests that overlapped and committed in the other order
C26_Witness ==
  /\ Len(pools) = 2
  /\ \/ \E w \in Workers : /\ last[w].op = "pool" /\ last[w].error = ""
                            /\ last[w].poolsBefore # <<>>
     \/ pools[1].created_at > pools[2].created_at

\* ------------------------------------------------------------------- C27
\* the routes marked as baseline
BaselineRoutes == {r \in DOMAIN is_baseline : is_baseline[r]}

\* C27 as stated: after any sequence of setBaseline calls, two of them for
\* different routes at the same time included, at most one route has
\* is_baseline = true.
C27_AtMostOneBaseline == Cardinality(BaselineRoutes) <= 1

\* ------------------------------------------------------------------- C28
\* createPool does not reject the members with 'Sum of compliance balances is
\* negative' or 'Violates Article 21 pooling rules'
ServerAccepts(members) ==
  ~PoolSumRejected(members) /\ ValidationErrors(members) = <<>>

\* the member lists createPool has read in full and checked, by the calls in
\* flight and the calls returned
MembersChecked ==
  {call[w].members : w \in {v \in Workers :
      call[v].op = "pool" /\ call[v].pc \in {"save", "member", "poolCommit", "poolRollback"}}}
  \cup {last[w].members : w \in {v \in Workers :
      /\ last[v].op = "pool" /\ last[v].members # <<>>
      /\ Len(last[v].members) = Len(last[v].memberShipIds)}}

\* The page decides as the server does, for the pool names of names: on the
\* member lists of BalanceLists (compared once, before the first request) and
\* on every list createPool has checked.
PageAgreesWithServer(names) ==
  /\ nops = 0 =>
       \A members \in BalanceLists, poolName \in names :
         canCreate(poolName, selectedMembers(members)) <=> ServerAccepts(members)
  /\ \A members \in MembersChecked, poolName \in names :
        canCreate(poolName, selectedMembers(members)) <=> ServerAccepts(members)
  /\ \A w \in Workers, poolName \in names :
        LET r == last[w] IN
        (r.op = "pool" /\ r.members # <<>> /\ Len(r.members) = Len(r.memberShipIds)) =>
          ( canCreate(poolName, selectedMembers(r.members))
            <=> r.error \notin {"Sum of compliance balances is negative",
                                "Violates Article 21 pooling rules"} )

\* C28 as stated: for every non-empty tuple of member balances, the page's
\* canCreate is true if and only if createPool does not reject the tuple for
\* its sum or under the Article 21 rules.
C28_PageAgreesWithServer == PageAgreesWithServer(PoolNames)

\* C28, amended: once a pool name that is not blank has been entered, the
\* page's canCreate is true if and only if createPool does not reject the
\* members for their sum or under the Article 21 rules; with a blank name
\* canCreate is false whatever the balances.
C28_PageAgreesWhenNamed ==
  /\ PageAgreesWithServer({n \in PoolNames : trim(n) # <<>>})
  /\ nops = 0 =>
       \A members \in BalanceLists, poolName \in PoolNames :
         trim(poolName) = <<>> => ~canCreate(poolName, selectedMembers(members))
  /\ \A members \in MembersChecked, poolName \in PoolNames :
        trim(poolName) = <<>> => ~canCreate(poolName, selectedMembers(members))

\* createPool has accepted a list of members and rejected another one, and the
\* page would have enabled the button for the first only
C28_Witness ==
  \E v, w \in Workers :
    /\ last[v].op = "pool" /\ last[v].error = ""
    /\ canCreate(<<"P">>, selectedMembers(last[v].members))
    /\ last[w].op = "pool"
    /\ last[w].error = "Sum of compliance balances is negative"
    /\ ~canCreate(<<"P">>, selectedMembers(last[w].members))

\* ------------------------------------------------------------------- C29
\* worker w's bank commits in this step
BankCommits(w) ==
  /\ call[w].op = "bank" /\ call'[w].op = "idle"
  /\ last'[w].op = "bank" /\ last'[w].error = ""

\* C29: bank never drives a ledger value below zero: in the state a
\* successful bank on a key leaves, the ledger value of the key is 0 or more,
\* also when another bank on the key was in flight with it.
C29_BankKeepsLedgerNonNegative ==
  [][\A w \in Workers :
       BankCommits(w) =>
         /\ call[w].shipId \in DOMAIN ship_compliance'
         /\ ship_compliance'[call[w].shipId] >= 0]_vars

\* two banks on one key were in flight together, both succeeded, and they took
\* all of the key's balance
C29_Witness ==
  /\ last[1].op = "bank" /\ last[1].error = ""
  /\ last[2].op = "bank" /\ last[2].error = ""
  /\ last[1].shipId = last[2].shipId
  /\ last[1].id \in last[2].peers
  /\ last[2].before[1][last[2].shipId] > 0
  /\ ship_compliance[last[1].shipId] = 0

\* ------------------------------------------------------------------- C30
\* worker w's computeAndSave stores a value in this step
ComputeStores(w) ==
  /\ nops' = nops + 1
  /\ last'[w].op = "compute" /\ last'[w].id = nops' /\ last'[w].error = ""

\* a bank or an apply commits in this step
BankOrApplyCommits ==
  \E w \in Workers :
    /\ call[w].op \in {"bank", "apply"} /\ call'[w].op = "idle"
    /\ last'[w].error = ""

\* C30: a compute, or re-compute, of a key overwrites the ledger value of that
\* key only and leaves every bank entry as it is, the entries banked from the
\* key's earlier value included; the banked total of a key changes only in
\* the step in which a bank or an apply commits.
C30_ComputeLeavesBankAlone ==
  [][/\ \A w \in Workers :
          ComputeStores(w) =>
            /\ bank_entries' = bank_entries
            /\ DOMAIN ship_compliance' = DOMAIN ship_compliance \cup {last'[w].shipId}
            /\ \A s \in DOMAIN ship_compliance \ {last'[w].shipId} :
                 ship_compliance'[s] = ship_compliance[s]
     /\ (\E s \in Ships : BankedIn(bank_entries', s) # BankedIn(bank_entries, s))
          => BankOrApplyCommits]_vars

\* a key with bank entries was computed again, to another value, and its
\* entries are as they were
C30_Witness ==
  \E w \in Workers :
    LET r == last[w] IN
    /\ r.op = "compute" /\ r.error = "" /\ RanAlone(r)
    /\ r.shipId \in DOMAIN r.before[1]
    /\ ship_compliance[r.shipId] # r.before[1][r.shipId]
    /\ BankedIn(r.before[2], r.shipId) > 0
    /\ bank_entries = r.before[2]

====
